---- MODULE Spec2Model ----
(***************************************************************************)
(* A model of the resource synchronisation engine of fluminurs:            *)
(*   - the download engine of src/src/resource.rs (prepare_path,           *)
(*     do_retryable_download, infinite_retry_download, download_chunks)    *)
(*     with the ffmpeg streamer of src/src/streamer.rs,                    *)
(*   - the path uniquifier sort_and_make_all_paths_unique,                 *)
(*   - the HTTP layer's infinite_retry_http of src/src/lib.rs,             *)
(*   - the Zoom cloudrecord polling loop of src/src/conferencing.rs.       *)
(* Each part has its own specification; the variables of the other parts   *)
(* stay at their initial values.                                           *)
(***************************************************************************)
EXTENDS Integers, Sequences, FiniteSets, TLC

(***************************************************************************)
(* Bounds of the model.                                                    *)
(***************************************************************************)
\* timestamps (server last_updated, local clock, file mtimes) are 0..MaxTime
MaxTime == 2
\* download calls made one after the other on the same destination
MaxCalls == 2
\* download attempts of one call that the environment lets end in Retry
MaxAttempts == 1
\* chunks of the response body of the resource
BodyLen == 2
\* candidate paths <stem>_autorename_<date>[_i] tracked per date: i < NumCand
NumCand == 3
\* ticks of the model's clock per calendar day
TicksPerDay == 2

VARIABLES
    \* ---- download engine (resource.rs) ----
    pc,            \* position of the download call
    calls,         \* download calls started so far
    kind,          \* which Resource implementation is downloaded
    now,           \* the local clock (may be out of sync with the server)
    mode,          \* OverwriteMode of the current call
    last_updated,  \* last_updated of the current call
    metadata,      \* what tokio::fs::metadata(dest) answered in this call
    result,        \* the OverwriteResult prepare_path chose
    ret,           \* how the call returned: none, Ok, Err, Aborted
    err,           \* the error string of an Err return
    dest,          \* the file at destination
    temp,          \* the file at temp_destination
    renamed,       \* the files at the autorename candidate paths
    before_data,   \* before_download_data (0: not acquired)
    attempt,       \* number of the running/last download attempt (global)
    outcome,       \* result of the last attempt of this call
    pre,           \* history: the filesystem when the current call started
    prev,          \* history: the call before, if it returned Ok after downloading
    url_calls,     \* history: before_download_file invocations in this call
    call_attempts, \* history: download attempts in this call
    ok_attempts,   \* history: the attempts that returned Ok
    status,        \* the HTTP status of the last response to the download GET, 0 for none
    \* ---- path uniquifier (resource.rs) ----
    batch,         \* the slice handed to sort_and_make_all_paths_unique
    resources,     \* the slice as the function leaves it
    uq_pc,         \* input, done
    \* ---- infinite_retry_http (lib.rs) ----
    h_pc,          \* start, loop, done
    h_form,        \* the form argument: none, ok, bad (cannot be serialised)
    h_buildable,   \* whether RequestBuilder::build succeeds on this request
    h_fails,       \* the transport fails on the first h_fails sends
    h_status,      \* the HTTP status the server answers with
    h_req,         \* the request built in the current iteration
    h_built,       \* requests built so far
    h_edits,       \* calls of edit_request so far
    h_sent,        \* requests handed to client.execute so far
    h_logs,        \* lines printed about failed sends
    h_ret,         \* the value returned
    \* ---- load_cloud_record (conferencing.rs) ----
    z_pc,          \* poll, done
    num_404_tries, \* the local of load_cloud_record
    z_requests,    \* cloudrecord requests issued so far
    z_400s,        \* responses with code 400 so far
    z_all404,      \* history: every response so far carried code 404
    z_ret,         \* the value returned
    z_last,        \* the code of the last response, -1 when there is none
    z_name,        \* conference.name
    z_instances,   \* the record instances of the accepted response, -1 for None
    z_paths,       \* the file names of the recordings returned
    \* ---- Api::modules (lib.rs) ----
    mo_pc,         \* start, load, done
    mo_term,       \* the argument term: Option<String>
    mo_current,    \* the current term the server reports
    mo_server,     \* the module list the server answers with
    mo_filter,     \* the FilterMode chosen
    mo_warnings,   \* warning lines printed by dedup_by
    mo_ret,        \* the value returned
    \* ---- sanitise_filename (util.rs) ----
    sa_pc,         \* input, once, twice
    sa_name,       \* the name given
    sa_once,       \* sanitise_filename(name)
    sa_twice,      \* sanitise_filename(sanitise_filename(name))
    \* ---- download_resources (cli.rs) ----
    po_phase,      \* the part of main that downloads: files, multimedia, ...
    po_isdir,      \* whether the destination is an existing directory
    po_files,      \* per pool: the number of resources in its list
    po_pc,         \* per pool: off, start, running, done
    po_next,       \* per pool: the next resource the stream yields
    po_running,    \* per pool: the downloads in flight (in_progress_queue)
    po_invoked,    \* per pool: how often download was invoked on each resource
    po_result,     \* per pool: what each download returned
    po_ret,        \* per pool: what download_resources returned
    \* ---- Api::with_login (lib.rs) ----
    lg_pc,         \* start, auth, check, token, parse, done
    lg_client_ok,  \* whether build_client succeeds
    lg_url,        \* the final URL of the credential POST's response
    lg_status,     \* the status of the token exchange's response
    lg_body,       \* the body of the token exchange's response
    lg_posts,      \* the POST requests made so far
    lg_resps,      \* the responses received so far
    lg_ret,        \* the value returned
    \* ---- stream_and_mux_videos (streamer.rs) ----
    mx_pc,         \* start, streams, mux, cleanup, done
    mx_temp,       \* temp_destination
    mx_streams,    \* the StreamSpecs
    mx_dests,      \* temp_stream_dests
    mx_results,    \* stream_results, "none" while a download is running
    mx_files,      \* the files that exist
    mx_removed,    \* the sub-temp files whose remove_file was called
    mx_runs,       \* the ffmpeg invocations made so far
    mx_ret,        \* the value returned
    \* ---- DirectoryHandle::load (file.rs) ----
    fd_pc,         \* load, done
    fd_include,    \* include_uploadable
    fd_parent,     \* the directory each sub-directory lies in
    fd_upload,     \* allowUpload of each sub-directory
    fd_pending,    \* the requests not answered yet
    fd_sent,       \* the requests sent so far
    fd_failed,     \* the requests that failed
    fd_ret,        \* the value returned
    \* ---- main (bin/cli.rs) ----
    mn_pc,         \* load, login, download, done
    mn_opts,       \* per section: whether to list, whether a download directory is given
    mn_zoom_has,   \* the modules that have a Zoom recording
    mn_sec,        \* the section main is in
    mn_loaded,     \* the modules whose load has ended in this section
    mn_failed,     \* the loading failures so far: module and family
    mn_printed,    \* the "Failed loading ..." lines printed so far
    mn_list,       \* the resources collected in this section
    mn_returned,   \* the resources the loaders returned
    mn_listed,     \* the resources listed
    mn_downloaded, \* the resources handed to download
    mn_logins,     \* what each call of login_zoom returned
    mn_ret,        \* what main returned
    \* ---- ZoomRecording::get_download_url (conferencing.rs) ----
    zu_pc,         \* start, password, second, video, download, done
    zu_reqs,       \* the requests sent so far
    zu_first,      \* the path the first GET of the share URL ended on
    zu_page,       \* whether the password page gave the meeting id
    zu_post,       \* the answer to the validation POST
    zu_second,     \* the path the second GET of the share URL ended on
    zu_url,        \* what get_download_url returned
    zu_result,     \* what prepare_path answered
    zu_dest,       \* "old": the file found there, "new": the recording, "none"
    zu_ret,        \* what download returned
    \* ---- prepare_path, Rename mode (resource.rs) ----
    rn_pc,         \* loop, done
    rn_name,       \* the file name of path
    rn_files,      \* the file names in the directory of path
    rn_i,          \* i
    rn_tried,      \* the file names of the renamed_paths tried so far
    rn_ret,        \* what prepare_path returned
    lp_pc,         \* dir, file, done
    lp_name,       \* the name the server gave last
    lp_path,       \* the path of the DirectoryHandle or of the File
    lp_depth,      \* the subdirectories followed
    lp_real,       \* real_path of download_resources
    lp_temp,       \* temp_path of download_resources
    lp_ret,        \* ok, or panic when an unwrap() met None
    fl_pc,         \* loaded, download, done
    fl_loaded,     \* the videos of each pool as Multimedia::load returned them
    fl_lists,      \* the videos of each pool after sort_and_make_all_paths_unique
    fl_next,       \* per pool, the position of the next video to start
    fl_running     \* per pool, the positions of the videos being downloaded

dlVars == <<pc, calls, kind, now, mode, last_updated, metadata, result, ret, err,
            dest, temp, renamed, before_data, attempt, outcome, pre, prev,
            url_calls, call_attempts, ok_attempts, status>>

uqVars == <<batch, resources, uq_pc>>

httpVars == <<h_pc, h_form, h_buildable, h_fails, h_status, h_req, h_built, h_edits,
              h_sent, h_logs, h_ret>>

zoomVars == <<z_pc, num_404_tries, z_requests, z_400s, z_all404, z_ret, z_last, z_name,
              z_instances, z_paths>>

modVars == <<mo_pc, mo_term, mo_current, mo_server, mo_filter, mo_warnings, mo_ret>>

sanVars == <<sa_pc, sa_name, sa_once, sa_twice>>

poolVars == <<po_phase, po_isdir, po_files, po_pc, po_next, po_running, po_invoked,
              po_result, po_ret>>

\* the variables of the parts added after the first four
loginVars == <<lg_pc, lg_client_ok, lg_url, lg_status, lg_body, lg_posts, lg_resps, lg_ret>>

muxVars == <<mx_pc, mx_temp, mx_streams, mx_dests, mx_results, mx_files, mx_removed,
             mx_runs, mx_ret>>

\* the variables of the parts added last
dirVars == <<fd_pc, fd_include, fd_parent, fd_upload, fd_pending, fd_sent, fd_failed, fd_ret>>

mainVars == <<mn_pc, mn_opts, mn_zoom_has, mn_sec, mn_loaded, mn_failed, mn_printed, mn_list,
              mn_returned, mn_listed, mn_downloaded, mn_logins, mn_ret>>

zuVars == <<zu_pc, zu_reqs, zu_first, zu_page, zu_post, zu_second, zu_url, zu_result, zu_dest,
            zu_ret>>

renameVars == <<rn_pc, rn_name, rn_files, rn_i, rn_tried, rn_ret>>

pathVars == <<lp_pc, lp_name, lp_path, lp_depth, lp_real, lp_temp, lp_ret>>

flightVars == <<fl_pc, fl_loaded, fl_lists, fl_next, fl_running>>

lateVars == <<muxVars, dirVars, mainVars, zuVars, renameVars, pathVars, flightVars>>

moreVars == <<modVars, sanVars, poolVars, loginVars, lateVars>>

vars == <<dlVars, uqVars, httpVars, zoomVars, moreVars>>

\* what a step of the download engine leaves alone
NonDl == <<uqVars, httpVars, zoomVars, moreVars>>

\* what a step of the uniquifier leaves alone
NonUq == <<dlVars, httpVars, zoomVars, moreVars>>

\* what a step of infinite_retry_http leaves alone
NonHttp == <<dlVars, uqVars, zoomVars, moreVars>>

\* what a step of load_cloud_record leaves alone
NonZoom == <<dlVars, uqVars, httpVars, moreVars>>

\* the first four parts
coreVars == <<dlVars, uqVars, httpVars, zoomVars>>

\* what a step of Api::modules leaves alone
NonMod == <<coreVars, sanVars, poolVars, loginVars, lateVars>>

\* what a step of sanitise_filename leaves alone
NonSan == <<coreVars, modVars, poolVars, loginVars, lateVars>>

\* what a step of download_resources leaves alone
NonPool == <<coreVars, modVars, sanVars, loginVars, lateVars>>

\* what a step of Api::with_login leaves alone
NonLogin == <<coreVars, modVars, sanVars, poolVars, lateVars>>

\* the parts before the last ones
earlyVars == <<coreVars, modVars, sanVars, poolVars, loginVars>>

\* what a step of stream_and_mux_videos leaves alone
NonMux == <<earlyVars, dirVars, mainVars, zuVars, renameVars, pathVars, flightVars>>

\* what a step of DirectoryHandle::load leaves alone
NonDir == <<earlyVars, muxVars, mainVars, zuVars, renameVars, pathVars, flightVars>>

\* what a step of main leaves alone
NonMain == <<earlyVars, muxVars, dirVars, zuVars, renameVars, pathVars, flightVars>>

\* what a step of get_download_url leaves alone
NonZu == <<earlyVars, muxVars, dirVars, mainVars, renameVars, pathVars, flightVars>>

\* what a step of the rename search leaves alone
NonRename == <<earlyVars, muxVars, dirVars, mainVars, zuVars, pathVars, flightVars>>

NonPath == <<earlyVars, muxVars, dirVars, mainVars, zuVars, renameVars, flightVars>>

NonFlight == <<earlyVars, muxVars, dirVars, mainVars, zuVars, renameVars, pathVars>>

(***************************************************************************)
(* Files.  bytes is the sequence of chunks, each tagged with the attempt   *)
(* that wrote it; old files carry tags <= 0.                               *)
(***************************************************************************)
Times == 0..MaxTime

NoFile == [exists |-> FALSE, bytes |-> <<>>, mtime |-> 0]

MkFile(b, t) == [exists |-> TRUE, bytes |-> b, mtime |-> t]

\* the bytes of a file that was at dest before the first call
OldBytes == <<0>>

\* the bytes of a temp file left behind by an earlier, aborted process
StaleBytes == <<-1>>

\* the bytes of a file that already sits at an autorename candidate path
OtherBytes == <<-2>>

\* the complete body as written by attempt a
Complete(a) == [i \in 1..BodyLen |-> a]

\* SystemTime::UNIX_EPOCH
EPOCH == 0

Modes == {"Skip", "Overwrite", "Rename"}

Kinds == {"simple", "internal_video", "external_video"}

\* the OverwriteResults of a call that downloaded
Downloaded == {"NewFile", "Overwritten", "Renamed"}

\* last_updated if an external video carried the server's time
LastUpdatedServer(k, server_time) == server_time

\* Resource::last_updated of the implementations
LastUpdated(k, server_time) ==
    IF k = "external_video" THEN EPOCH ELSE server_time

\* which download_file closure the implementation passes
UsesFfmpeg(k) == k \in {"internal_video", "external_video"}

Res(tag, rp) == [tag |-> tag, renamed_path |-> rp]

NoMeta == [kind |-> "unread", mtime |-> 0]

\* no call before, or one that did not return Ok after downloading
NoPrev == [downloaded |-> FALSE, tag |-> "none", last_updated |-> 0]

Fs == [dest |-> dest, temp |-> temp, renamed |-> renamed]

\* chrono::DateTime::<Local>::from(old_time).date()
Date(t) == t \div TicksPerDay

Days == {Date(t) : t \in Times}

\* the autorename candidates: <<date, i>> is <stem>_autorename_<date>[_<i>]<.ext>
Cands == Days \X (0..(NumCand - 1))

NoCand == <<-1, -1>>

\* tokio::fs::metadata(path), then .modified()
MetaAnswers(f) ==
    (IF f.exists
        THEN {[kind |-> "ok", mtime |-> f.mtime], [kind |-> "nomtime", mtime |-> 0]}
        ELSE {[kind |-> "notfound", mtime |-> 0]})
    \cup {[kind |-> "denied", mtime |-> 0], [kind |-> "other", mtime |-> 0]}

\* the arm taken for NotFound if PermissionDenied were handled like it
IsNotFoundOrDenied(k) == k \in {"notfound", "denied"}

\* prepare_path: the arm "std::io::ErrorKind::NotFound => Ok((true, NewFile))"
IsNotFound(k) == k = "notfound"

\* prepare_path: "if last_updated <= old_time"
ShouldSkipLt(lu, old_time) == lu < old_time

ShouldSkip(lu, old_time) == lu <= old_time

\* the candidate without a suffix, taken without probing
FirstFreeNoProbe(ren, day) == 0

\* prepare_path's loop: the first suffix i whose candidate path does not exist
FirstFree(ren, day) ==
    CHOOSE i \in 0..(NumCand - 1) :
        /\ ~ren[<<day, i>>].exists
        /\ \A j \in 0..(i - 1) : ren[<<day, j>>].exists

HasFree(ren, day) == \E i \in 0..(NumCand - 1) : ~ren[<<day, i>>].exists

\* infinite_retry_download: the arm "Ok(_) =>" of the match on the attempt's result
IsOkOrRetry(o) == o \in {"Ok", "Retry"}

IsOk(o) == o = "Ok"

\* filetime::set_file_mtime(destination, FileTime::from_system_time(last_updated))
StampedNow(f, lu, clock) == [f EXCEPT !.mtime = clock]

Stamped(f, lu, clock) == [f EXCEPT !.mtime = lu]

(***************************************************************************)
(* Returning from download.                                                *)
(***************************************************************************)
ReturnErr(msg) ==
    /\ pc' = "idle"
    /\ ret' = "Err"
    /\ err' = msg

ReturnOk ==
    /\ pc' = "idle"
    /\ ret' = "Ok"
    /\ err' = ""

\* where the loop would go if a retry acquired the URL again
AfterRetryFromUrl == "before_download"

\* infinite_retry_download: "/* retry */", the loop calls download_file again with
\* before_download_data.clone()
AfterRetry == "attempt"

\* the error returned after a Fail if a failed deletion took precedence
FailMessageDeletionFirst(success, e) ==
    IF success THEN e ELSE "Unable to delete temporary file"

\* infinite_retry_download: RetryableError::Fail(err) => return Err(err)
FailMessage(success, e) == e

\* a file opened for writing without being emptied
FileOpenAppend(old, clock) == IF old.exists THEN old ELSE MkFile(<<>>, clock)

\* tokio::fs::File::create: the file is made, or emptied when it is there
FileCreate(old, clock) == MkFile(<<>>, clock)

\* the statuses the server answers the download GET with
GetStatuses == {200, 404}

\* the environment stops answering with Retry after MaxAttempts attempts of a call
MayRetry == call_attempts <= MaxAttempts

(***************************************************************************)
(* The download call: Resource::download -> do_retryable_download.         *)
(***************************************************************************)
Call(m, t) ==
    /\ UNCHANGED NonDl
    /\ UNCHANGED status
    /\ pc = "idle"
    /\ calls < MaxCalls
    /\ calls' = calls + 1
    /\ mode' = m
    /\ last_updated' = LastUpdated(kind, t)
    /\ metadata' = NoMeta
    /\ result' = Res("none", NoCand)
    /\ ret' = "none"
    /\ err' = ""
    /\ before_data' = 0
    /\ outcome' = "none"
    /\ pre' = Fs
    /\ prev' = IF ret = "Ok" /\ result.tag \in Downloaded
                  THEN [downloaded |-> TRUE, tag |-> result.tag, last_updated |-> last_updated]
                  ELSE NoPrev
    /\ url_calls' = 0
    /\ call_attempts' = 0
    /\ pc' = "metadata"
    /\ UNCHANGED <<kind, now, dest, temp, renamed, attempt, ok_attempts>>

\* prepare_path: let metadata = tokio::fs::metadata(path).await
ReadMetadata ==
    /\ UNCHANGED NonDl
    /\ UNCHANGED status
    /\ pc = "metadata"
    /\ \E m \in MetaAnswers(dest) : metadata' = m
    /\ pc' = "prepare_path"
    /\ UNCHANGED <<calls, kind, now, mode, last_updated, result, ret, err, dest, temp,
                   renamed, before_data, attempt, outcome, pre, prev, url_calls,
                   call_attempts, ok_attempts>>

\* prepare_path: the metadata error arms and the missing modified time
PreparePathErr ==
    /\ UNCHANGED NonDl
    /\ UNCHANGED status
    /\ pc = "prepare_path"
    /\ metadata.kind \in {"denied", "other", "nomtime"}
    /\ ~IsNotFound(metadata.kind)
    /\ ReturnErr(CASE metadata.kind = "denied" ->
                        "Permission denied when retrieving file metadata"
                   [] metadata.kind = "other" -> "Unable to retrieve file metadata"
                   [] OTHER -> "File system does not support last modified time")
    /\ UNCHANGED <<calls, kind, now, mode, last_updated, metadata, result, dest, temp,
                   renamed, before_data, attempt, outcome, pre, prev, url_calls,
                   call_attempts, ok_attempts>>

\* prepare_path: NotFound => Ok((true, NewFile))
PreparePathNew ==
    /\ UNCHANGED NonDl
    /\ UNCHANGED status
    /\ pc = "prepare_path"
    /\ IsNotFound(metadata.kind)
    /\ result' = Res("NewFile", NoCand)
    /\ pc' = "before_download"
    /\ UNCHANGED <<calls, kind, now, mode, last_updated, metadata, ret, err, dest, temp,
                   renamed, before_data, attempt, outcome, pre, prev, url_calls,
                   call_attempts, ok_attempts>>

\* prepare_path: (false, AlreadyHave) and (false, Skipped); do_retryable_download
\* then returns Ok(result) without entering "if should_download"
PreparePathNoDownload ==
    /\ UNCHANGED NonDl
    /\ UNCHANGED status
    /\ pc = "prepare_path"
    /\ metadata.kind = "ok"
    /\ \/ /\ ShouldSkip(last_updated, metadata.mtime)
          /\ result' = Res("AlreadyHave", NoCand)
       \/ /\ ~ShouldSkip(last_updated, metadata.mtime)
          /\ mode = "Skip"
          /\ result' = Res("Skipped", NoCand)
    /\ ReturnOk
    /\ UNCHANGED <<calls, kind, now, mode, last_updated, metadata, dest, temp,
                   renamed, before_data, attempt, outcome, pre, prev, url_calls,
                   call_attempts, ok_attempts>>

\* prepare_path: OverwriteMode::Overwrite => Ok((true, Overwritten))
PreparePathOverwrite ==
    /\ UNCHANGED NonDl
    /\ UNCHANGED status
    /\ pc = "prepare_path"
    /\ metadata.kind = "ok"
    /\ ~ShouldSkip(last_updated, metadata.mtime)
    /\ mode = "Overwrite"
    /\ result' = Res("Overwritten", NoCand)
    /\ pc' = "before_download"
    /\ UNCHANGED <<calls, kind, now, mode, last_updated, metadata, ret, err, dest, temp,
                   renamed, before_data, attempt, outcome, pre, prev, url_calls,
                   call_attempts, ok_attempts>>

\* prepare_path: OverwriteMode::Rename, the candidate loop and tokio::fs::rename
PreparePathRename ==
    /\ UNCHANGED NonDl
    /\ UNCHANGED status
    /\ pc = "prepare_path"
    /\ metadata.kind = "ok"
    /\ ~ShouldSkip(last_updated, metadata.mtime)
    /\ mode = "Rename"
    /\ HasFree(renamed, Date(metadata.mtime))
    /\ LET c == <<Date(metadata.mtime), FirstFree(renamed, Date(metadata.mtime))>>
       IN  \/ /\ renamed' = [renamed EXCEPT ![c] = dest]
              /\ dest' = NoFile
              /\ result' = Res("Renamed", c)
              /\ pc' = "before_download"
              /\ UNCHANGED <<ret, err>>
           \/ /\ ReturnErr("Failed renaming existing file")
              /\ UNCHANGED <<renamed, dest, result>>
    /\ UNCHANGED <<calls, kind, now, mode, last_updated, metadata, temp,
                   before_data, attempt, outcome, pre, prev, url_calls,
                   call_attempts, ok_attempts>>

\* do_retryable_download: before_download_file(api).await?
BeforeDownload ==
    /\ UNCHANGED NonDl
    /\ UNCHANGED status
    /\ pc = "before_download"
    /\ url_calls' = url_calls + 1
    /\ \/ /\ before_data' = 1
          /\ pc' = "create_dir"
          /\ UNCHANGED <<ret, err>>
       \/ /\ ReturnErr("before_download failed")
          /\ UNCHANGED before_data
    /\ UNCHANGED <<calls, kind, now, mode, last_updated, metadata, result, dest, temp,
                   renamed, attempt, outcome, pre, prev, call_attempts, ok_attempts>>

\* do_retryable_download: tokio::fs::create_dir_all(parent)
CreateDir ==
    /\ UNCHANGED NonDl
    /\ UNCHANGED status
    /\ pc = "create_dir"
    /\ \/ /\ pc' = "attempt"
          /\ UNCHANGED <<ret, err>>
       \/ ReturnErr("Unable to create directory")
    /\ UNCHANGED <<calls, kind, now, mode, last_updated, metadata, result, dest, temp,
                   renamed, before_data, attempt, outcome, pre, prev, url_calls,
                   call_attempts, ok_attempts>>

(***************************************************************************)
(* One attempt by download_chunks (SimpleDownloadableResource).            *)
(***************************************************************************)
\* download_file(...) is called; download_chunks: tokio::fs::File::create
CreateTemp ==
    /\ UNCHANGED NonDl
    /\ UNCHANGED status
    /\ pc = "attempt"
    /\ ~UsesFfmpeg(kind)
    /\ attempt' = attempt + 1
    /\ call_attempts' = call_attempts + 1
    /\ \/ /\ temp' = FileCreate(temp, now)
          /\ pc' = "send"
          /\ UNCHANGED <<outcome, err>>
       \/ /\ outcome' = "Fail"
          /\ err' = "Unable to open temporary file"
          /\ pc' = "attempt_done"
          /\ UNCHANGED temp
    /\ UNCHANGED <<calls, kind, now, mode, last_updated, metadata, result, ret, dest,
                   renamed, before_data, pre, prev, url_calls, ok_attempts>>

\* download_chunks: edit_request(client.get(url)).send(); any status is a response
Send ==
    /\ UNCHANGED NonDl
    /\ pc = "send"
    /\ \/ /\ \E s \in GetStatuses : status' = s
          /\ pc' = "stream"
          /\ UNCHANGED <<outcome, err>>
       \/ /\ MayRetry
          /\ outcome' = "Retry"
          /\ err' = "Failed during download"
          /\ pc' = "attempt_done"
          /\ UNCHANGED status
    /\ UNCHANGED <<calls, kind, now, mode, last_updated, metadata, result, ret, dest,
                   temp, renamed, before_data, attempt, pre, prev, url_calls,
                   call_attempts, ok_attempts>>

\* download_chunks: one turn of "while let Some(chunk) = res.chunk()"
Chunk ==
    /\ UNCHANGED NonDl
    /\ UNCHANGED status
    /\ pc = "stream"
    /\ \/ /\ MayRetry
          /\ outcome' = "Retry"
          /\ err' = "Failed during streaming"
          /\ pc' = "attempt_done"
          /\ UNCHANGED <<temp, ok_attempts>>
       \/ /\ Len(temp.bytes) < BodyLen
          /\ temp' = MkFile(Append(temp.bytes, attempt), now)
          /\ UNCHANGED <<pc, outcome, err, ok_attempts>>
       \/ /\ Len(temp.bytes) < BodyLen
          /\ outcome' = "Fail"
          /\ err' = "Failed writing to disk"
          /\ pc' = "attempt_done"
          /\ UNCHANGED <<temp, ok_attempts>>
       \/ /\ Len(temp.bytes) = BodyLen
          /\ outcome' = "Ok"
          /\ ok_attempts' = ok_attempts \cup {attempt}
          /\ pc' = "attempt_done"
          /\ UNCHANGED <<temp, err>>
    /\ UNCHANGED <<calls, kind, now, mode, last_updated, metadata, result, ret, dest,
                   renamed, before_data, attempt, pre, prev, url_calls, call_attempts>>

(***************************************************************************)
(* One attempt by ffmpeg (stream_video -> stream_impl).                    *)
(***************************************************************************)
Ffmpeg ==
    /\ UNCHANGED NonDl
    /\ UNCHANGED status
    /\ pc = "attempt"
    /\ UsesFfmpeg(kind)
    /\ attempt' = attempt + 1
    /\ call_attempts' = call_attempts + 1
    /\ pc' = "attempt_done"
    /\ \/ /\ outcome' = "Fail"
          /\ err' = "Failed to start ffmpeg"
          /\ UNCHANGED <<temp, ok_attempts>>
       \/ /\ call_attempts < MaxAttempts
          /\ outcome' = "Retry"
          /\ err' = "ffmpeg returned nonzero exit code"
          /\ \/ UNCHANGED temp
             \/ \E k \in 0..BodyLen :
                    temp' = MkFile(SubSeq(Complete(attempt'), 1, k), now)
          /\ UNCHANGED ok_attempts
       \/ /\ outcome' = "Ok"
          /\ temp' = MkFile(Complete(attempt'), now)
          /\ ok_attempts' = ok_attempts \cup {attempt'}
          /\ UNCHANGED err
    /\ UNCHANGED <<calls, kind, now, mode, last_updated, metadata, result, ret, dest,
                   renamed, before_data, pre, prev, url_calls>>

(***************************************************************************)
(* infinite_retry_download: what follows an attempt.                       *)
(***************************************************************************)
\* Ok(_) => tokio::fs::rename(temp_destination, destination); break
Commit ==
    /\ UNCHANGED NonDl
    /\ UNCHANGED status
    /\ pc = "attempt_done"
    /\ IsOk(outcome)
    /\ \/ /\ temp.exists
          /\ dest' = temp
          /\ temp' = NoFile
          /\ pc' = "stamp"
          /\ UNCHANGED <<ret, err>>
       \/ /\ ReturnErr("Unable to move temporary file")
          /\ UNCHANGED <<dest, temp>>
    /\ UNCHANGED <<calls, kind, now, mode, last_updated, metadata, result,
                   renamed, before_data, attempt, outcome, pre, prev, url_calls,
                   call_attempts, ok_attempts>>

\* Err(err) => remove_file(temp_destination).is_ok(), then Retry / Fail
Cleanup ==
    /\ UNCHANGED NonDl
    /\ UNCHANGED status
    /\ pc = "attempt_done"
    /\ outcome \in {"Retry", "Fail"}
    /\ \E success \in (IF temp.exists THEN BOOLEAN ELSE {FALSE}) :
          /\ temp' = IF success THEN NoFile ELSE temp
          /\ IF outcome = "Retry"
                THEN IF ~success
                        THEN ReturnErr("Unable to delete temporary file")
                        ELSE pc' = AfterRetry /\ UNCHANGED <<ret, err>>
                ELSE ReturnErr(FailMessage(success, err))
    /\ UNCHANGED <<calls, kind, now, mode, last_updated, metadata, result, dest,
                   renamed, before_data, attempt, outcome, pre, prev, url_calls,
                   call_attempts, ok_attempts>>

\* do_retryable_download: set_file_mtime(destination, last_updated), then Ok(result)
Stamp ==
    /\ UNCHANGED NonDl
    /\ UNCHANGED status
    /\ pc = "stamp"
    /\ \/ /\ dest' = Stamped(dest, last_updated, now)
          /\ ReturnOk
       \/ /\ ReturnErr("Unable to set last modified time")
          /\ UNCHANGED dest
    /\ UNCHANGED <<calls, kind, now, mode, last_updated, metadata, result, temp,
                   renamed, before_data, attempt, outcome, pre, prev, url_calls,
                   call_attempts, ok_attempts>>

\* the process is killed (SIGINT) between two steps of a call: the call's locals
\* are gone, the filesystem stays as it is, and no further call is made by this
\* process (what a later process finds is an initial state: a stale temp file,
\* files at candidate paths)
Abort ==
    /\ UNCHANGED NonDl
    /\ status' = 0
    /\ pc \notin {"idle", "aborted"}
    /\ pc' = "aborted"
    /\ ret' = "Aborted"
    /\ err' = ""
    /\ metadata' = NoMeta
    /\ result' = Res("none", NoCand)
    /\ before_data' = 0
    /\ outcome' = "none"
    /\ url_calls' = 0
    /\ call_attempts' = 0
    /\ UNCHANGED <<calls, kind, now, mode, last_updated, dest, temp, renamed,
                   attempt, pre, prev, ok_attempts>>

(***************************************************************************)
(* The download specification.                                             *)
(***************************************************************************)
\* the candidate files that exist before the first call: a prefix per date
InitRenamed ==
    {r \in [Cands -> {NoFile, MkFile(OtherBytes, 0)}] :
        \A c \in Cands : r[c].exists => c[2] < NumCand - MaxCalls /\ c[2] = 0}

DlInit ==
    /\ pc = "idle"
    /\ calls = 0
    /\ kind \in Kinds
    /\ now \in Times
    /\ mode = "Skip"
    /\ last_updated = 0
    /\ metadata = NoMeta
    /\ result = Res("none", NoCand)
    /\ ret = "none"
    /\ err = ""
    /\ dest \in {NoFile} \cup {MkFile(OldBytes, t) : t \in Times}
    /\ temp \in {NoFile, MkFile(StaleBytes, 0)}
    /\ renamed \in InitRenamed
    /\ before_data = 0
    /\ attempt = 0
    /\ outcome = "none"
    /\ pre = Fs
    /\ prev = NoPrev
    /\ url_calls = 0
    /\ call_attempts = 0
    /\ ok_attempts = {}
    /\ status = 0

NextDl ==
    \/ \E m \in Modes, t \in Times : Call(m, t)
    \/ ReadMetadata
    \/ PreparePathErr
    \/ PreparePathNew
    \/ PreparePathNoDownload
    \/ PreparePathOverwrite
    \/ PreparePathRename
    \/ BeforeDownload
    \/ CreateDir
    \/ CreateTemp
    \/ Send
    \/ Chunk
    \/ Ffmpeg
    \/ Commit
    \/ Cleanup
    \/ Stamp
    \/ Abort

(***************************************************************************)
(* The path uniquifier: sort_and_make_all_paths_unique.                    *)
(* A file name, a directory name and an id are sequences of characters; a  *)
(* path is a directory (a sequence of components) and a file name.         *)
(***************************************************************************)
\* resources in one batch
NumRes == 3
\* last_updated values of the resources of a batch are 0..MaxStamp
MaxStamp == 1

\* the byte value of the characters used, for the ordering of OsStr
Ord(c) ==
    CASE c = "!" -> 33
      [] c = "." -> 46
      [] c = "1" -> 49
      [] c = "2" -> 50
      [] c = "3" -> 51
      [] c = "4" -> 52
      [] c = "5" -> 53
      [] c = "A" -> 65
      [] c = "B" -> 66
      [] c = "_" -> 95
      [] c = "a" -> 97
      [] c = "p" -> 112
      [] c = "~" -> 126

RECURSIVE CmpFrom(_, _, _)
\* lexicographic comparison of two character sequences from position i: -1, 0, 1
CmpFrom(x, y, i) ==
    IF i > Len(x) /\ i > Len(y) THEN 0
    ELSE IF i > Len(x) THEN -1
    ELSE IF i > Len(y) THEN 1
    ELSE IF Ord(x[i]) < Ord(y[i]) THEN -1
    ELSE IF Ord(x[i]) > Ord(y[i]) THEN 1
    ELSE CmpFrom(x, y, i + 1)

CmpStr(x, y) == CmpFrom(x, y, 1)

RECURSIVE CmpComps(_, _, _)
\* Path::cmp compares the paths component by component
CmpComps(x, y, i) ==
    IF i > Len(x) /\ i > Len(y) THEN 0
    ELSE IF i > Len(x) THEN -1
    ELSE IF i > Len(y) THEN 1
    ELSE IF CmpStr(x[i], y[i]) # 0 THEN CmpStr(x[i], y[i])
    ELSE CmpComps(x, y, i + 1)

Components(path) == IF path.name = <<>> THEN path.dir ELSE Append(path.dir, path.name)

PathCmp(p, q) == CmpComps(Components(p), Components(q), 1)

\* the comparator without ".reverse()": oldest first among equal paths
ResCmpOldestFirst(r1, r2) ==
    IF PathCmp(r1.path, r2.path) # 0 THEN PathCmp(r1.path, r2.path)
    ELSE IF r1.last_updated < r2.last_updated THEN -1
    ELSE IF r1.last_updated > r2.last_updated THEN 1
    ELSE 0

\* the comparator of sort_unstable_by: path, then last_updated reversed
ResCmp(r1, r2) ==
    IF PathCmp(r1.path, r2.path) # 0 THEN PathCmp(r1.path, r2.path)
    ELSE IF r1.last_updated > r2.last_updated THEN -1
    ELSE IF r1.last_updated < r2.last_updated THEN 1
    ELSE 0

\* a slice that sort_unstable_by may leave: ordered by the comparator
IsSorted(s) == \A i \in 1..Len(s) : \A j \in i..Len(s) : ResCmp(s[i], s[j]) <= 0

\* the positions of '.' in a file name
DotsOf(name) == {i \in 1..Len(name) : name[i] = "."}

LastDot(name) == CHOOSE i \in DotsOf(name) : \A j \in DotsOf(name) : j <= i

\* whether Path::file_stem / Path::extension split the name: it has a '.', which
\* is not its first character, and it is not ".."
Splits(name) == DotsOf(name) # {} /\ LastDot(name) > 1 /\ name # <<".", ".">>

\* Path::file_stem
FileStem(name) == IF Splits(name) THEN SubSeq(name, 1, LastDot(name) - 1) ELSE name

NoExt == [some |-> FALSE, val |-> <<>>]

\* Path::extension
Extension(name) ==
    IF Splits(name)
        THEN [some |-> TRUE, val |-> SubSeq(name, LastDot(name) + 1, Len(name))]
        ELSE NoExt

\* the id put after the whole name
NewNameIdLast(name, id) == name \o <<"_">> \o id

\* the closure of the fold: new_name = <stem>_<id>[.<extension>]
NewName(name, id) ==
    (IF name = <<>> THEN <<>> ELSE FileStem(name) \o <<"_">>)
    \o id
    \o (IF Extension(name).some THEN <<".">> \o Extension(name).val ELSE <<>>)

\* the new name put in place of the whole path
SetFileNameNoParent(path, name) == [dir |-> <<>>, name |-> name]

\* PathBuf::set_file_name
SetFileName(path, name) == [path EXCEPT !.name = name]

\* Path::new("")
EmptyPath == [dir |-> <<>>, name |-> <<>>]

RECURSIVE FoldFrom(_, _, _)
\* resources.iter_mut().fold(Path::new(""), ...) from position i with cursor path
FoldFrom(s, i, cursor) ==
    IF i > Len(s) THEN s
    ELSE IF cursor = s[i].path
        THEN FoldFrom([s EXCEPT ![i].path = SetFileName(s[i].path, NewName(s[i].path.name, s[i].id))],
                      i + 1, cursor)
        ELSE FoldFrom(s, i + 1, s[i].path)

Digits == <<"1", "2", "3", "4", "5">>

\* the id of the k-th resource of the batch (ids are pairwise distinct)
IdOf(k) == <<Digits[k]>>

\* the parent directories, each a sequence of components: the batch of one folder
Dirs == {<< <<"A">> >>}

\* file names as the loaders make them
BaseNames == {<<"a">>, <<"a", ".", "p">>, <<".", "p">>}

\* and file names that already look like <stem>_<id>.<ext>
Names == BaseNames \cup {NewName(b, IdOf(k)) : b \in BaseNames, k \in 1..NumRes}

Paths == {[dir |-> d, name |-> n] : d \in Dirs, n \in Names}

\* the batches of n resources: the k-th has the k-th id, any path, any last_updated
Batches(n) ==
    {[k \in 1..n |-> [id |-> IdOf(k), path |-> f[k][1], last_updated |-> f[k][2]]]
        : f \in [1..n -> Paths \X (0..MaxStamp)]}

UqIdle ==
    /\ batch = <<>>
    /\ resources = <<>>
    /\ uq_pc = "off"

UqInit ==
    /\ \E n \in 1..NumRes : batch \in Batches(n)
    /\ resources = batch
    /\ uq_pc = "input"

\* sort_and_make_all_paths_unique(resources)
SortAndMakeAllPathsUnique ==
    /\ UNCHANGED NonUq
    /\ uq_pc = "input"
    /\ \E perm \in Permutations(1..Len(batch)) :
          LET sorted == [i \in 1..Len(batch) |-> batch[perm[i]]]
          IN  /\ IsSorted(sorted)
              /\ resources' = FoldFrom(sorted, 1, EmptyPath)
    /\ uq_pc' = "done"
    /\ UNCHANGED batch

NextUq == SortAndMakeAllPathsUnique

(***************************************************************************)
(* The HTTP layer: infinite_retry_http.                                    *)
(***************************************************************************)
\* the transport fails at most MaxFail times before it succeeds
MaxFail == 3

Statuses == {200, 400, 404, 500}

NoReq == [body |-> "none", content_type |-> "none", edited |-> FALSE]

NoRet == [tag |-> "none", status |-> 0, msg |-> ""]

HttpIdle ==
    /\ h_pc = "off"
    /\ h_form = "none"
    /\ h_buildable = TRUE
    /\ h_fails = 0
    /\ h_status = 200
    /\ h_req = NoReq
    /\ h_built = 0
    /\ h_edits = 0
    /\ h_sent = 0
    /\ h_logs = 0
    /\ h_ret = NoRet

HttpInit ==
    /\ h_pc = "start"
    /\ h_form \in {"none", "ok", "bad"}
    /\ h_buildable \in BOOLEAN
    /\ h_fails \in 0..MaxFail
    /\ h_status \in Statuses
    /\ h_req = NoReq
    /\ h_built = 0
    /\ h_edits = 0
    /\ h_sent = 0
    /\ h_logs = 0
    /\ h_ret = NoRet

\* the request of one iteration: body and Content-Type by the form, then edit_request
BuildRequest(form) ==
    IF form = "ok"
        THEN [body |-> "form", content_type |-> "application/x-www-form-urlencoded",
              edited |-> TRUE]
        ELSE [body |-> "none", content_type |-> "application/json", edited |-> TRUE]

\* where the loop goes after a failed send if the error were returned
AfterSendErrorGiveUp == "done"

\* the arm "Err(e) => println!(...)" of the match on client.execute: loop again
AfterSendError == "loop"

\* serde_urlencoded::to_string(form) before the loop
HttpSerialise ==
    /\ UNCHANGED NonHttp
    /\ h_pc = "start"
    /\ IF h_form = "bad"
          THEN /\ h_pc' = "done"
               /\ h_ret' = [tag |-> "Err", status |-> 0, msg |-> "Failed to serialise HTTP form"]
          ELSE /\ h_pc' = "loop"
               /\ UNCHANGED h_ret
    /\ UNCHANGED <<h_form, h_buildable, h_fails, h_status, h_req, h_built, h_edits,
                   h_sent, h_logs>>

\* one iteration of the loop whose build fails
HttpBuildError ==
    /\ UNCHANGED NonHttp
    /\ h_pc = "loop"
    /\ ~h_buildable
    /\ h_edits' = h_edits + 1
    /\ h_pc' = "done"
    /\ h_ret' = [tag |-> "Err", status |-> 0, msg |-> "Failed to build request"]
    /\ UNCHANGED <<h_form, h_buildable, h_fails, h_status, h_req, h_built, h_sent, h_logs>>

\* one iteration of the loop whose send fails in the transport
HttpSendError ==
    /\ UNCHANGED NonHttp
    /\ h_pc = "loop"
    /\ h_buildable
    /\ h_sent < h_fails
    /\ h_req' = BuildRequest(h_form)
    /\ h_edits' = h_edits + 1
    /\ h_built' = h_built + 1
    /\ h_sent' = h_sent + 1
    /\ h_logs' = h_logs + 1
    /\ h_pc' = AfterSendError
    /\ UNCHANGED <<h_form, h_buildable, h_fails, h_status, h_ret>>

\* one iteration of the loop whose send succeeds: break res; Ok(res)
HttpSendOk ==
    /\ UNCHANGED NonHttp
    /\ h_pc = "loop"
    /\ h_buildable
    /\ h_sent >= h_fails
    /\ h_req' = BuildRequest(h_form)
    /\ h_edits' = h_edits + 1
    /\ h_built' = h_built + 1
    /\ h_sent' = h_sent + 1
    /\ h_pc' = "done"
    /\ h_ret' = [tag |-> "Ok", status |-> h_status, msg |-> ""]
    /\ UNCHANGED <<h_form, h_buildable, h_fails, h_status, h_logs>>

NextHttp ==
    \/ HttpSerialise
    \/ HttpBuildError
    \/ HttpSendError
    \/ HttpSendOk

(***************************************************************************)
(* Strings: trimming, replacing, printing a number.                        *)
(***************************************************************************)
\* char::is_whitespace, on the characters used
Whitespace == {" ", "TAB"}

RECURSIVE TrimStart(_)
\* str::trim_start
TrimStart(s) ==
    IF s # <<>> /\ Head(s) \in Whitespace THEN TrimStart(Tail(s)) ELSE s

RECURSIVE TrimEnd(_)
\* str::trim_end
TrimEnd(s) ==
    IF s # <<>> /\ s[Len(s)] \in Whitespace THEN TrimEnd(SubSeq(s, 1, Len(s) - 1)) ELSE s

\* a trim that only strips the front
TrimStartOnly(s) == TrimStart(s)

\* str::trim
Trim(s) == TrimEnd(TrimStart(s))

\* str::replace of the one-character pattern from by to
Replace(s, from, to) == [i \in 1..Len(s) |-> IF s[i] = from THEN to ELSE s[i]]

\* sanitise_filename
SanitiseFilename(name) == Replace(Replace(Trim(name), "NUL", "-"), "/", "-")

DecimalDigits == <<"0", "1", "2", "3", "4", "5", "6", "7", "8", "9">>

RECURSIVE UsizeToString(_)
\* index.to_string()
UsizeToString(i) ==
    IF i < 10 THEN <<DecimalDigits[i + 1]>>
    ELSE UsizeToString(i \div 10) \o <<DecimalDigits[(i % 10) + 1]>>

(***************************************************************************)
(* Zoom: the polling loop of load_cloud_record.                            *)
(***************************************************************************)
\* responses with code 400 the server gives to one conference
Max400 == 3
\* record instances in a cloudrecord response
MaxInstances == 2

\* "num_404_tries >= 5"
Budget404 == 5

\* the body code of a response: 0 stands for an absent code
Codes == {0, 200, 400, 404}

\* a code 400 let through like any other code
AcceptsNot404(code, tries) == code # 404 \/ tries >= Budget404

\* the condition of the "break cloud_record"
Accepts(code, tries) == code # 400 /\ (code # 404 \/ tries >= Budget404)

\* conference names as the server gives them
ConfNames == {<<"a">>, <<"a", ".", "b">>, <<" ", "a", "/">>}

\* make_mp4_extension: Path::with_extension("mp4") replaces what follows the last
\* '.' of the file name, and leaves a path without a file name as it is
MakeMp4Extension(name) ==
    IF name = <<>> \/ name = <<".", ".">> THEN name
    ELSE FileStem(name) \o <<".", "mp4">>

\* append_number: format!("{} ({})", text, number)
AppendNumber(text, number) == text \o <<" ", "(">> \o UsizeToString(number) \o <<")">>

\* the match on record_instances: the file names of the recordings under the
\* conferencing directory; n is the number of instances, -1 for None
Recordings(name, n) ==
    IF n <= 0 THEN <<>>
    ELSE IF n = 1 THEN << MakeMp4Extension(SanitiseFilename(name)) >>
    ELSE [i \in 1..n |-> MakeMp4Extension(AppendNumber(SanitiseFilename(name), i))]

ZoomIdle ==
    /\ z_pc = "off"
    /\ num_404_tries = 0
    /\ z_requests = 0
    /\ z_400s = 0
    /\ z_all404 = TRUE
    /\ z_last = -1
    /\ z_name = <<>>
    /\ z_instances = -1
    /\ z_paths = <<>>
    /\ z_ret = [tag |-> "none", recordings |-> 0]

ZoomInit ==
    /\ z_pc = "poll"
    /\ num_404_tries = 0
    /\ z_requests = 0
    /\ z_400s = 0
    /\ z_all404 = TRUE
    /\ z_last = -1
    /\ z_name \in ConfNames
    /\ z_instances = -1
    /\ z_paths = <<>>
    /\ z_ret = [tag |-> "none", recordings |-> 0]

\* api_as_json(...).await? fails: load_cloud_record returns the error
ZoomRequestError ==
    /\ UNCHANGED NonZoom
    /\ z_pc = "poll"
    /\ z_requests' = z_requests + 1
    /\ z_pc' = "done"
    /\ z_ret' = [tag |-> "Err", recordings |-> 0]
    /\ z_last' = -1
    /\ UNCHANGED <<num_404_tries, z_400s, z_all404, z_name, z_instances, z_paths>>

\* one turn of the loop with a response that is not accepted
ZoomRetry(code) ==
    /\ UNCHANGED NonZoom
    /\ z_pc = "poll"
    /\ ~Accepts(code, num_404_tries)
    /\ code = 400 => z_400s < Max400
    /\ z_requests' = z_requests + 1
    /\ z_last' = code
    /\ z_400s' = IF code = 400 THEN z_400s + 1 ELSE z_400s
    /\ num_404_tries' = IF code = 404 THEN num_404_tries + 1 ELSE num_404_tries
    /\ z_all404' = (z_all404 /\ code = 404)
    /\ UNCHANGED <<z_pc, z_ret, z_name, z_instances, z_paths>>

\* one turn of the loop with an accepted response, and the match on its
\* record_instances; n record instances, -1 for None
ZoomAccept(code, n) ==
    /\ UNCHANGED NonZoom
    /\ z_pc = "poll"
    /\ Accepts(code, num_404_tries)
    /\ z_requests' = z_requests + 1
    /\ z_last' = code
    /\ z_all404' = (z_all404 /\ code = 404)
    /\ z_pc' = "done"
    /\ z_instances' = n
    /\ z_paths' = Recordings(z_name, n)
    /\ z_ret' = [tag |-> "Ok", recordings |-> Len(z_paths')]
    /\ UNCHANGED <<num_404_tries, z_400s, z_name>>

NextZoom ==
    \/ ZoomRequestError
    \/ \E code \in Codes : ZoomRetry(code)
    \/ \E code \in Codes, n \in -1..MaxInstances : ZoomAccept(code, n)

(***************************************************************************)
(* Api::modules: term filter, sort and de-duplication.                     *)
(* Module codes and terms are Strings, compared as Rust compares them.     *)
(***************************************************************************)
\* modules in the server's answer
MaxModules == 3

ModCodes == {<<"A">>, <<"B">>}

\* terms as the server writes them; "12" sorts before "2" as a String
Terms == {<<"1">>, <<"2">>, <<"1", "2">>}

NoTerm == <<>>

\* the module lists of n modules; id is the position in the server's answer
ModuleLists(n) ==
    {[k \in 1..n |-> [id |-> k, code |-> f[k][1], term |-> f[k][2]]]
        : f \in [1..n -> ModCodes \X Terms]}

\* the filter with a strict comparison for GreaterThan
PassesStrict(filter, m) ==
    IF filter.mode = "Equal" THEN m.term = filter.term
    ELSE CmpStr(m.term, filter.term) > 0

\* the closures of iter.filter: m.term == term, m.term >= term
Passes(filter, m) ==
    IF filter.mode = "Equal" THEN m.term = filter.term
    ELSE CmpStr(m.term, filter.term) >= 0

\* the comparator with the terms in increasing order
ModCmpOldestFirst(m1, m2) ==
    IF CmpStr(m1.code, m2.code) # 0 THEN CmpStr(m1.code, m2.code)
    ELSE CmpStr(m1.term, m2.term)

\* m1.code.cmp(&m2.code).then_with(|| m2.term.cmp(&m1.term))
ModCmp(m1, m2) ==
    IF CmpStr(m1.code, m2.code) # 0 THEN CmpStr(m1.code, m2.code)
    ELSE CmpStr(m2.term, m1.term)

\* a list that sort_unstable_by may leave
IsSortedModules(s) == \A i \in 1..Len(s) : \A j \in i..Len(s) : ModCmp(s[i], s[j]) <= 0

RECURSIVE FilterFrom(_, _, _)
\* iter.filter(...).collect() from position i
FilterFrom(s, i, filter) ==
    IF i > Len(s) THEN <<>>
    ELSE IF Passes(filter, s[i]) THEN <<s[i]>> \o FilterFrom(s, i + 1, filter)
    ELSE FilterFrom(s, i + 1, filter)

RECURSIVE DedupFrom(_, _, _)
\* Vec::dedup_by with the closure other.code == latest.code: an element equal in
\* code to the last retained one is removed
DedupFrom(s, i, acc) ==
    IF i > Len(s) THEN acc
    ELSE IF acc # <<>> /\ s[i].code = acc[Len(acc)].code
        THEN DedupFrom(s, i + 1, acc)
        ELSE DedupFrom(s, i + 1, Append(acc, s[i]))

NoFilter == [mode |-> "none", term |-> NoTerm]

NoModRet == [tag |-> "none", modules |-> <<>>, msg |-> ""]

ModIdle ==
    /\ mo_pc = "off"
    /\ mo_term = NoTerm
    /\ mo_current = NoTerm
    /\ mo_server = <<>>
    /\ mo_filter = NoFilter
    /\ mo_warnings = 0
    /\ mo_ret = NoModRet

ModInit ==
    /\ mo_pc = "start"
    /\ mo_term \in Terms \cup {NoTerm}
    /\ mo_current \in Terms
    /\ \E n \in 0..MaxModules : mo_server \in ModuleLists(n)
    /\ mo_filter = NoFilter
    /\ mo_warnings = 0
    /\ mo_ret = NoModRet

\* modules: the choice of the FilterMode; current_term().await? may fail
ModulesFilter ==
    /\ UNCHANGED NonMod
    /\ mo_pc = "start"
    /\ IF mo_term # NoTerm
          THEN /\ mo_filter' = [mode |-> "Equal", term |-> mo_term]
               /\ mo_pc' = "load"
               /\ UNCHANGED mo_ret
          ELSE \/ /\ mo_filter' = [mode |-> "GreaterThan", term |-> mo_current]
                  /\ mo_pc' = "load"
                  /\ UNCHANGED mo_ret
               \/ /\ mo_pc' = "done"
                  /\ mo_ret' = [tag |-> "Err", modules |-> <<>>, msg |-> "current_term failed"]
                  /\ UNCHANGED mo_filter
    /\ UNCHANGED <<mo_term, mo_current, mo_server, mo_warnings>>

\* modules: the "module" request fails, or its data is None
ModulesLoadError ==
    /\ UNCHANGED NonMod
    /\ mo_pc = "load"
    /\ mo_pc' = "done"
    /\ \E msg \in {"Unable to deserialize JSON",
                   "Invalid API response from server: type mismatch"} :
          mo_ret' = [tag |-> "Err", modules |-> <<>>, msg |-> msg]
    /\ UNCHANGED <<mo_term, mo_current, mo_server, mo_filter, mo_warnings>>

\* modules: filter, sort_unstable_by, dedup_by, Ok(selected_modules)
ModulesSelect ==
    /\ UNCHANGED NonMod
    /\ mo_pc = "load"
    /\ LET selected == FilterFrom(mo_server, 1, mo_filter)
       IN  \E perm \in Permutations(1..Len(selected)) :
              LET sorted == [i \in 1..Len(selected) |-> selected[perm[i]]]
                  kept == DedupFrom(sorted, 1, <<>>)
              IN  /\ IsSortedModules(sorted)
                  /\ mo_ret' = [tag |-> "Ok", modules |-> kept, msg |-> ""]
                  /\ mo_warnings' = Len(sorted) - Len(kept)
    /\ mo_pc' = "done"
    /\ UNCHANGED <<mo_term, mo_current, mo_server, mo_filter>>

NextMod ==
    \/ ModulesFilter
    \/ ModulesLoadError
    \/ ModulesSelect

(***************************************************************************)
(* sanitise_filename, the branch of a build where cfg!(windows) is false:  *)
(* name.trim().replace("\0", "-").replace("/", "-").                       *)
(* A name is a sequence of characters; NUL and TAB stand for the bytes.    *)
(***************************************************************************)
\* characters in a name
MaxName == 4

SanChars == {"/", "NUL", " ", "TAB", "a"}

SanNames(n) == [1..n -> SanChars]

SanIdle ==
    /\ sa_pc = "off"
    /\ sa_name = <<>>
    /\ sa_once = <<>>
    /\ sa_twice = <<>>

SanInit ==
    /\ sa_pc = "input"
    /\ \E n \in 0..MaxName : sa_name \in SanNames(n)
    /\ sa_once = <<>>
    /\ sa_twice = <<>>

\* sanitise_filename(name)
Sanitise ==
    /\ UNCHANGED NonSan
    /\ sa_pc = "input"
    /\ sa_once' = SanitiseFilename(sa_name)
    /\ sa_pc' = "once"
    /\ UNCHANGED <<sa_name, sa_twice>>

\* sanitise_filename applied to the result
SanitiseAgain ==
    /\ UNCHANGED NonSan
    /\ sa_pc = "once"
    /\ sa_twice' = SanitiseFilename(sa_once)
    /\ sa_pc' = "twice"
    /\ UNCHANGED <<sa_name, sa_once>>

NextSan ==
    \/ Sanitise
    \/ SanitiseAgain

(***************************************************************************)
(* download_resources: one bounded pool per call,                          *)
(* stream::iter(files).map(download_resource).buffer_unordered(parallelism) *)
(* .for_each(...), as main calls it for each family of resources.          *)
(***************************************************************************)
\* resources in the list of one pool
MaxFiles == 5

\* main: download_resources(&api, &module_file, ..., 64)
BudgetWorkbin == 64

\* main: the parallelism of the internal multimedia pool
BudgetInternal == 4

\* main: the parallelism of the external multimedia pool
BudgetExternal == 4

\* main: the parallelism of the web lecture pool
BudgetWeblectures == 4

\* main: the parallelism of the Zoom pool
BudgetZoom == 4

Pools == {"workbin", "internal", "external", "weblectures", "zoom"}

Phases == {"files", "multimedia", "weblectures", "conferences"}

\* the parallelism main passes to download_resources
Budget(p) ==
    CASE p = "workbin" -> BudgetWorkbin
      [] p = "internal" -> BudgetInternal
      [] p = "external" -> BudgetExternal
      [] p = "weblectures" -> BudgetWeblectures
      [] p = "zoom" -> BudgetZoom

\* the pools of a phase of main; multimedia joins two calls of download_resources
PoolsOf(phase) ==
    CASE phase = "files" -> {"workbin"}
      [] phase = "multimedia" -> {"internal", "external"}
      [] phase = "weblectures" -> {"weblectures"}
      [] phase = "conferences" -> {"zoom"}
      [] OTHER -> {}

\* what download_resource saw its download return
DlResults == {"Ok", "Err"}

\* a slot check that admits one download too many
HasSlotOffByOne(in_progress, max) == in_progress <= max

\* buffer_unordered: "while in_progress_queue.len() < max" pulls the next future
HasSlot(in_progress, max) == in_progress < max

\* a pool that would stop at the first failed download
ContinuesAfterOkOnly(r) == r # "Err"

\* download_resource returns () whatever download returned; for_each goes on
ContinuesAfter(r) == TRUE

PoolIdle ==
    /\ po_phase = "off"
    /\ po_isdir = TRUE
    /\ po_files = [p \in Pools |-> 0]
    /\ po_pc = [p \in Pools |-> "off"]
    /\ po_next = [p \in Pools |-> 1]
    /\ po_running = [p \in Pools |-> {}]
    /\ po_invoked = [p \in Pools |-> <<>>]
    /\ po_result = [p \in Pools |-> <<>>]
    /\ po_ret = [p \in Pools |-> "none"]

PoolInit ==
    /\ po_phase \in Phases
    /\ po_isdir \in BOOLEAN
    /\ po_files \in [Pools -> 0..MaxFiles]
    /\ \A p \in Pools : p \notin PoolsOf(po_phase) => po_files[p] = 0
    /\ po_pc = [p \in Pools |-> IF p \in PoolsOf(po_phase) THEN "start" ELSE "off"]
    /\ po_next = [p \in Pools |-> 1]
    /\ po_running = [p \in Pools |-> {}]
    /\ po_invoked = [p \in Pools |-> [k \in 1..po_files[p] |-> 0]]
    /\ po_result = [p \in Pools |-> [k \in 1..po_files[p] |-> "none"]]
    /\ po_ret = [p \in Pools |-> "none"]

\* download_resources: the check of the destination
PoolEnter(p) ==
    /\ UNCHANGED NonPool
    /\ po_pc[p] = "start"
    /\ IF po_isdir
          THEN /\ po_pc' = [po_pc EXCEPT ![p] = "running"]
               /\ UNCHANGED po_ret
          ELSE /\ po_pc' = [po_pc EXCEPT ![p] = "done"]
               /\ po_ret' = [po_ret EXCEPT ![p] = "Err"]
    /\ UNCHANGED <<po_phase, po_isdir, po_files, po_next, po_running, po_invoked,
                   po_result>>

\* buffer_unordered pulls the next resource from the stream: download_resource is
\* called and its future joins the downloads in flight
PoolStart(p) ==
    /\ UNCHANGED NonPool
    /\ po_pc[p] = "running"
    /\ po_next[p] <= po_files[p]
    /\ HasSlot(Cardinality(po_running[p]), Budget(p))
    /\ po_running' = [po_running EXCEPT ![p] = @ \cup {po_next[p]}]
    /\ po_invoked' = [po_invoked EXCEPT ![p][po_next[p]] = @ + 1]
    /\ po_next' = [po_next EXCEPT ![p] = @ + 1]
    /\ UNCHANGED <<po_phase, po_isdir, po_files, po_pc, po_result, po_ret>>

\* a download in flight completes with r; the pool polls its downloads only after
\* it has filled its free slots from the stream
PoolComplete(p, k, r) ==
    /\ UNCHANGED NonPool
    /\ po_pc[p] = "running"
    /\ k \in po_running[p]
    /\ ~(po_next[p] <= po_files[p] /\ HasSlot(Cardinality(po_running[p]), Budget(p)))
    /\ po_running' = [po_running EXCEPT ![p] = @ \ {k}]
    /\ po_result' = [po_result EXCEPT ![p][k] = r]
    /\ IF ContinuesAfter(r)
          THEN UNCHANGED <<po_pc, po_ret>>
          ELSE /\ po_pc' = [po_pc EXCEPT ![p] = "done"]
               /\ po_ret' = [po_ret EXCEPT ![p] = "Err"]
    /\ UNCHANGED <<po_phase, po_isdir, po_files, po_next, po_invoked>>

\* the stream is exhausted and no download is in flight: for_each ends, Ok(())
PoolReturn(p) ==
    /\ UNCHANGED NonPool
    /\ po_pc[p] = "running"
    /\ po_next[p] > po_files[p]
    /\ po_running[p] = {}
    /\ po_pc' = [po_pc EXCEPT ![p] = "done"]
    /\ po_ret' = [po_ret EXCEPT ![p] = "Ok"]
    /\ UNCHANGED <<po_phase, po_isdir, po_files, po_next, po_running, po_invoked,
                   po_result>>

NextPool ==
    \/ \E p \in Pools : PoolEnter(p)
    \/ \E p \in Pools : PoolStart(p)
    \/ \E p \in Pools, k \in 1..MaxFiles, r \in DlResults : PoolComplete(p, k, r)
    \/ \E p \in Pools : PoolReturn(p)

(***************************************************************************)
(* Api::with_login: the credential POST and the token exchange.            *)
(***************************************************************************)
\* query pairs in the final URL of the credential POST
MaxPairs == 2

QueryKeys == {"code", "state"}

QueryVals == {"x", "y"}

\* the final URLs: whether the URL starts with ADFS_REDIRECT_URI, and its query
FinalUrls(n) ==
    {[starts |-> st, pairs |-> q] :
        st \in BOOLEAN, q \in [1..n -> [key : QueryKeys, val : QueryVals]]}

TokenStatuses == {199, 200, 204, 299, 300, 401, 500}

\* the bodies of the token exchange: a TokenResponse, JSON without access_token,
\* not JSON
TokenBodies == {"token", "no_access_token", "garbage"}

\* query_pairs().find(|(key, _)| key == "code")
CodePositions(url) == {i \in 1..Len(url.pairs) : url.pairs[i].key = "code"}

HasCode(url) == CodePositions(url) # {}

FirstCode(url) ==
    url.pairs[CHOOSE i \in CodePositions(url) : \A j \in CodePositions(url) : i <= j].val

\* a check that accepts the status 200 only
IsSuccess200Only(st) == st = 200

\* StatusCode::is_success
IsSuccess(st) == st >= 200 /\ st < 300

\* token_resp.json::<TokenResponse>() succeeds
Parses(body) == body = "token"

NoLoginRet == [tag |-> "none", msg |-> ""]

LoginErr(msg) == [tag |-> "Err", msg |-> msg]

LoginIdle ==
    /\ lg_pc = "off"
    /\ lg_client_ok = TRUE
    /\ lg_url = [starts |-> FALSE, pairs |-> <<>>]
    /\ lg_status = 200
    /\ lg_body = "token"
    /\ lg_posts = <<>>
    /\ lg_resps = 0
    /\ lg_ret = NoLoginRet

LoginInit ==
    /\ lg_pc = "start"
    /\ lg_client_ok \in BOOLEAN
    /\ \E n \in 0..MaxPairs : lg_url \in FinalUrls(n)
    /\ lg_status \in TokenStatuses
    /\ lg_body \in TokenBodies
    /\ lg_posts = <<>>
    /\ lg_resps = 0
    /\ lg_ret = NoLoginRet

\* with_login: build_client()?
LoginBuildClient ==
    /\ UNCHANGED NonLogin
    /\ lg_pc = "start"
    /\ IF lg_client_ok
          THEN lg_pc' = "auth" /\ UNCHANGED lg_ret
          ELSE lg_pc' = "done" /\ lg_ret' = LoginErr("Unable to create HTTP client")
    /\ UNCHANGED <<lg_client_ok, lg_url, lg_status, lg_body, lg_posts, lg_resps>>

\* with_login: auth_http_post(build_auth_url(), params, false).await?
LoginAuthPost ==
    /\ UNCHANGED NonLogin
    /\ lg_pc = "auth"
    /\ \/ /\ lg_posts' = Append(lg_posts, [to |-> "auth", code |-> ""])
          /\ lg_resps' = lg_resps + 1
          /\ lg_pc' = "check"
          /\ UNCHANGED lg_ret
       \/ /\ lg_pc' = "done"
          /\ lg_ret' = LoginErr("Failed to build request")
          /\ UNCHANGED <<lg_posts, lg_resps>>
    /\ UNCHANGED <<lg_client_ok, lg_url, lg_status, lg_body>>

\* with_login: the checks of the final URL
LoginCheckUrl ==
    /\ UNCHANGED NonLogin
    /\ lg_pc = "check"
    /\ IF ~lg_url.starts
          THEN lg_pc' = "done" /\ lg_ret' = LoginErr("Invalid credentials")
          ELSE IF ~HasCode(lg_url)
          THEN /\ lg_pc' = "done"
               /\ lg_ret' = LoginErr("Unknown authentication failure (no code returned)")
          ELSE lg_pc' = "token" /\ UNCHANGED lg_ret
    /\ UNCHANGED <<lg_client_ok, lg_url, lg_status, lg_body, lg_posts, lg_resps>>

\* with_login: auth_http_post(login/adfstoken, build_token_form(&code), true).await?
LoginTokenPost ==
    /\ UNCHANGED NonLogin
    /\ lg_pc = "token"
    /\ \/ /\ lg_posts' = Append(lg_posts, [to |-> "token", code |-> FirstCode(lg_url)])
          /\ lg_resps' = lg_resps + 1
          /\ lg_pc' = "parse"
          /\ UNCHANGED lg_ret
       \/ /\ lg_pc' = "done"
          /\ lg_ret' = LoginErr("Failed to build request")
          /\ UNCHANGED <<lg_posts, lg_resps>>
    /\ UNCHANGED <<lg_client_ok, lg_url, lg_status, lg_body>>

\* with_login: the status check, the JSON body, Ok(Api { jwt, .. })
LoginToken ==
    /\ UNCHANGED NonLogin
    /\ lg_pc = "parse"
    /\ lg_pc' = "done"
    /\ lg_ret' =
          IF ~IsSuccess(lg_status)
              THEN LoginErr("Unknown authentication failure (no token returned)")
          ELSE IF ~Parses(lg_body)
              THEN LoginErr("Failed to deserialise token exchange response")
          ELSE [tag |-> "Ok", msg |-> ""]
    /\ UNCHANGED <<lg_client_ok, lg_url, lg_status, lg_body, lg_posts, lg_resps>>

NextLogin ==
    \/ LoginBuildClient
    \/ LoginAuthPost
    \/ LoginCheckUrl
    \/ LoginTokenPost
    \/ LoginToken

(***************************************************************************)
(* stream_and_mux_videos: the sub-stream downloads, the mux, the clean-up. *)
(* Paths and arguments are sequences of tokens; "/" separates directories. *)
(***************************************************************************)
\* the most streams of one video
MaxStreams == 3

\* offset_seconds of a stream, in tenths of a second
Offsets == {0, 35}

\* offset_seconds.to_string(): no fraction is printed for a whole number
F64ToString(tenths) ==
    UsizeToString(tenths \div 10)
    \o (IF tenths % 10 = 0 THEN <<>> ELSE <<".", DecimalDigits[(tenths % 10) + 1]>>)

\* temp_destination as download_resource makes it: "~!" before the file name
TempDests == {<<"A", "/", "~!", "v">>, <<"~!", "v">>}

\* the StreamSpecs of a video: stream i has the URL <<"u", i>>
StreamLists(n) ==
    UNION {[1..k -> Offsets] : k \in 1..n}

StreamUrl(i) == <<"u">> \o UsizeToString(i)

Slashes(path) == {i \in 1..Len(path) : path[i] = "/"}

LastSlash(path) ==
    IF Slashes(path) = {} THEN 0
    ELSE CHOOSE i \in Slashes(path) : \A j \in Slashes(path) : j <= i

\* Path::parent
ParentOf(path) == SubSeq(path, 1, LastSlash(path) - 1)

\* Path::file_name
FileNameOf(path) == SubSeq(path, LastSlash(path) + 1, Len(path))

\* Path::join
Join(parent, name) == IF parent = <<>> THEN name ELSE parent \o <<"/">> \o name

\* make_temp_stream_file_name: "~!" + index + "~!" + old_filename, same parent
MakeTempStreamFileName(name, index) ==
    Join(ParentOf(name), <<"~!">> \o UsizeToString(index) \o <<"~!">> \o FileNameOf(name))

\* stream_impl's command line after the program name
StreamImplArgs(inputs, temp_destination) ==
    << <<"-y">> >> \o inputs \o << <<"-c">>, <<"copy">>, temp_destination >>

\* stream_video's input arguments
StreamVideoInputs(stream_url_path) == << <<"-i">>, stream_url_path >>

RECURSIVE ItsoffsetFrom(_, _, _)
\* the fold of the mux closure: -itsoffset <offset> -i <sub-temp> per stream
ItsoffsetFrom(streams, dests, i) ==
    IF i > Len(streams) THEN <<>>
    ELSE << <<"-itsoffset">>, F64ToString(streams[i]), <<"-i">>, dests[i] >>
         \o ItsoffsetFrom(streams, dests, i + 1)

RECURSIVE MapFrom(_, _)
\* the second fold of the mux closure: -map <i> for i in 0..len
MapFrom(n, i) ==
    IF i >= n THEN <<>>
    ELSE << <<"-map">>, UsizeToString(i) >> \o MapFrom(n, i + 1)

\* the -map arguments before the inputs they refer to
MuxInputsMapFirst(streams, dests) ==
    MapFrom(Len(streams), 0) \o ItsoffsetFrom(streams, dests, 1)

\* the mux closure
MuxInputs(streams, dests) ==
    ItsoffsetFrom(streams, dests, 1) \o MapFrom(Len(streams), 0)

\* what stream_impl returns: Fail when ffmpeg did not start, Retry on a nonzero exit
StreamOutcomes == {"Ok", "Retry", "Fail"}

\* whether the output file exists after a run: ffmpeg that failed may have written it
MayWrite(r, wrote) == (r = "Ok" => wrote) /\ (r = "Fail" => ~wrote)

\* the first error in stream order, whatever its kind
CollectFirstError(results) ==
    IF \A i \in DOMAIN results : results[i] = "Ok" THEN "Ok"
    ELSE results[CHOOSE i \in DOMAIN results :
                    /\ results[i] # "Ok"
                    /\ \A j \in DOMAIN results : results[j] # "Ok" => i <= j]

\* the two find(...).transpose()? passes: a Fail first, then any other error
Collect(results) ==
    IF \E i \in DOMAIN results : results[i] = "Fail" THEN "Fail"
    ELSE IF \E i \in DOMAIN results : results[i] # "Ok" THEN "Retry"
    ELSE "Ok"

MuxIdle ==
    /\ mx_pc = "off"
    /\ mx_temp = <<>>
    /\ mx_streams = <<>>
    /\ mx_dests = <<>>
    /\ mx_results = <<>>
    /\ mx_files = {}
    /\ mx_removed = {}
    /\ mx_runs = <<>>
    /\ mx_ret = "none"

MuxInit ==
    /\ mx_pc = "start"
    /\ mx_temp \in TempDests
    /\ mx_streams \in StreamLists(MaxStreams)
    /\ mx_dests = <<>>
    /\ mx_results = <<>>
    /\ mx_files = {}
    /\ mx_removed = {}
    /\ mx_runs = <<>>
    /\ mx_ret = "none"

\* one ffmpeg run of stream_impl
Run(inputs, out, r) == [argv |-> StreamImplArgs(inputs, out), outcome |-> r]

\* streams.len() == 1: stream_video straight to temp_destination
StreamSingle(r, wrote) ==
    /\ UNCHANGED NonMux
    /\ mx_pc = "start"
    /\ Len(mx_streams) = 1
    /\ MayWrite(r, wrote)
    /\ mx_runs' = Append(mx_runs, Run(StreamVideoInputs(StreamUrl(1)), mx_temp, r))
    /\ mx_files' = IF wrote THEN mx_files \cup {mx_temp} ELSE mx_files
    /\ mx_pc' = "done"
    /\ mx_ret' = r
    /\ UNCHANGED <<mx_temp, mx_streams, mx_dests, mx_results, mx_removed>>

\* two or more streams: name the sub-temp files and start every download
StartStreams ==
    /\ UNCHANGED NonMux
    /\ mx_pc = "start"
    /\ Len(mx_streams) >= 2
    /\ mx_dests' = [i \in 1..Len(mx_streams) |-> MakeTempStreamFileName(mx_temp, i - 1)]
    /\ mx_results' = [i \in 1..Len(mx_streams) |-> "none"]
    /\ mx_pc' = "streams"
    /\ UNCHANGED <<mx_temp, mx_streams, mx_files, mx_removed, mx_runs, mx_ret>>

\* a sub-stream download of the join_all ends; the last one ends the join_all,
\* and the results are looked through
StreamDone(i, r, wrote) ==
    /\ UNCHANGED NonMux
    /\ mx_pc = "streams"
    /\ i \in DOMAIN mx_results
    /\ mx_results[i] = "none"
    /\ MayWrite(r, wrote)
    /\ mx_results' = [mx_results EXCEPT ![i] = r]
    /\ mx_runs' = Append(mx_runs, Run(StreamVideoInputs(StreamUrl(i)), mx_dests[i], r))
    /\ mx_files' = IF wrote THEN mx_files \cup {mx_dests[i]} ELSE mx_files
    /\ IF \E j \in DOMAIN mx_results' : mx_results'[j] = "none"
          THEN UNCHANGED <<mx_pc, mx_ret>>
          ELSE IF Collect(mx_results') = "Ok"
                  THEN mx_pc' = "mux" /\ UNCHANGED mx_ret
                  ELSE mx_pc' = "done" /\ mx_ret' = Collect(mx_results')
    /\ UNCHANGED <<mx_temp, mx_streams, mx_dests, mx_removed>>

\* the mux run; an error returns before the sub-temp files are touched
MuxDone(r, wrote) ==
    /\ UNCHANGED NonMux
    /\ mx_pc = "mux"
    /\ MayWrite(r, wrote)
    /\ mx_runs' = Append(mx_runs, Run(MuxInputs(mx_streams, mx_dests), mx_temp, r))
    /\ mx_files' = IF wrote THEN mx_files \cup {mx_temp} ELSE mx_files
    /\ IF r = "Ok"
          THEN mx_pc' = "cleanup" /\ UNCHANGED mx_ret
          ELSE mx_pc' = "done" /\ mx_ret' = r
    /\ UNCHANGED <<mx_temp, mx_streams, mx_dests, mx_results, mx_removed>>

\* one remove_file of the last join_all; its error is ignored
RemoveSubTemp(i, ok) ==
    /\ UNCHANGED NonMux
    /\ mx_pc = "cleanup"
    /\ i \in DOMAIN mx_dests
    /\ i \notin mx_removed
    /\ mx_removed' = mx_removed \cup {i}
    /\ mx_files' = IF ok THEN mx_files \ {mx_dests[i]} ELSE mx_files
    /\ IF mx_removed' = DOMAIN mx_dests
          THEN mx_pc' = "done" /\ mx_ret' = "Ok"
          ELSE UNCHANGED <<mx_pc, mx_ret>>
    /\ UNCHANGED <<mx_temp, mx_streams, mx_dests, mx_results, mx_runs>>

NextMux ==
    \/ \E r \in StreamOutcomes, wrote \in BOOLEAN : StreamSingle(r, wrote)
    \/ StartStreams
    \/ \E i \in 1..MaxStreams, r \in StreamOutcomes, wrote \in BOOLEAN : StreamDone(i, r, wrote)
    \/ \E r \in StreamOutcomes, wrote \in BOOLEAN : MuxDone(r, wrote)
    \/ \E i \in 1..MaxStreams, ok \in BOOLEAN : RemoveSubTemp(i, ok)

(***************************************************************************)
(* DirectoryHandle::load: the recursive listing of a module's workbin.     *)
(* Directory 0 is the root; directory d > 0 lies in fd_parent[d] < d and   *)
(* holds the one file d; the root holds the file 0.                        *)
(***************************************************************************)
\* the directories below the root
MaxDirs == 2

SubDirs == 1..MaxDirs

\* allowUpload of a directory in the server's answer; it may be absent
UploadFlags == {"true", "false", "none"}

\* the trees: every directory below the root lies in one with a smaller number
Trees == {t \in [SubDirs -> 0..(MaxDirs - 1)] : \A d \in SubDirs : t[d] < d}

\* the two requests of one load
ReqKinds == {"subdirs", "files"}

\* allow_upload.unwrap_or(true)
UnwrapOrTrue(flag) == flag # "false"

\* allow_upload.unwrap_or(false)
UnwrapOrFalse(flag) == flag = "true"

\* the filter on the sub-directories of an answer
Kept(include_uploadable, flag) == include_uploadable \/ ~UnwrapOrFalse(flag)

\* the sub-directories of d that the filter keeps, as a set
KeptChildren(d) ==
    {c \in SubDirs : fd_parent[c] = d /\ Kept(fd_include, fd_upload[c])}

\* the set as the sequence in the server's order
RECURSIVE InOrder(_)
InOrder(ds) ==
    IF ds = {} THEN <<>>
    ELSE LET c == CHOOSE x \in ds : \A y \in ds : x <= y
         IN <<c>> \o InOrder(ds \ {c})

RECURSIVE LoadResult(_, _)
RECURSIVE CollectLoads(_, _)
\* collect::<Result<Vec<_>>>() and flatten over the loads of the sub-directories
CollectLoads(cs, failed) ==
    IF cs = <<>> THEN [ok |-> TRUE, files |-> <<>>]
    ELSE LET first == LoadResult(Head(cs), failed)
             rest == CollectLoads(Tail(cs), failed)
         IN IF first.ok /\ rest.ok
               THEN [ok |-> TRUE, files |-> first.files \o rest.files]
               ELSE [ok |-> FALSE, files |-> <<>>]

\* what load returns for d: res_subdirs?, then res_files? appended
LoadResult(d, failed) ==
    LET subs == IF <<d, "subdirs">> \in failed
                   THEN [ok |-> FALSE, files |-> <<>>]
                   ELSE CollectLoads(InOrder(KeptChildren(d)), failed)
    IN IF subs.ok /\ <<d, "files">> \notin failed
          THEN [ok |-> TRUE, files |-> subs.files \o <<d>>]
          ELSE [ok |-> FALSE, files |-> <<>>]

NoLoadRet == [ok |-> FALSE, files |-> <<-1>>]

DirIdle ==
    /\ fd_pc = "off"
    /\ fd_include = FALSE
    /\ fd_parent = <<>>
    /\ fd_upload = <<>>
    /\ fd_pending = {}
    /\ fd_sent = {}
    /\ fd_failed = {}
    /\ fd_ret = NoLoadRet

\* load is called on the root: its two requests are sent
DirInit ==
    /\ fd_pc = "load"
    /\ fd_include \in BOOLEAN
    /\ fd_parent \in Trees
    /\ fd_upload \in [SubDirs -> UploadFlags]
    /\ fd_pending = {<<0, k>> : k \in ReqKinds}
    /\ fd_sent = {<<0, k>> : k \in ReqKinds}
    /\ fd_failed = {}
    /\ fd_ret = NoLoadRet

\* the requests that an answer to the subdirs request of d starts
Started(d) == {<<c, k>> : c \in KeptChildren(d), k \in ReqKinds}

\* an answer arrives; the last one ends the root's load
DirAnswer(d, req, ok) ==
    /\ UNCHANGED NonDir
    /\ fd_pc = "load"
    /\ <<d, req>> \in fd_pending
    /\ fd_failed' = IF ok THEN fd_failed ELSE fd_failed \cup {<<d, req>>}
    /\ LET new == IF ok /\ req = "subdirs" THEN Started(d) ELSE {}
       IN /\ fd_pending' = (fd_pending \ {<<d, req>>}) \cup new
          /\ fd_sent' = fd_sent \cup new
    /\ IF fd_pending' = {}
          THEN fd_pc' = "done" /\ fd_ret' = LoadResult(0, fd_failed')
          ELSE UNCHANGED <<fd_pc, fd_ret>>
    /\ UNCHANGED <<fd_include, fd_parent, fd_upload>>

NextDir ==
    \E d \in 0..MaxDirs, req \in ReqKinds, ok \in BOOLEAN : DirAnswer(d, req, ok)

(***************************************************************************)
(* main: the four loaders, one after the other, each followed by the       *)
(* listing and the download of what it returned.  Every module has one     *)
(* resource in each family, except that it may have no Zoom recording.     *)
(***************************************************************************)
\* the modules of the run
MaxMods == 2

Mods == 1..MaxMods

\* the sections of main, in the order of the code
Loaders == <<"files", "multimedia", "weblectures", "conferences">>

\* the families of resources that a loader returns
FamiliesOf(loader) ==
    CASE loader = "files" -> {"workbin"}
      [] loader = "multimedia" -> {"internal", "external"}
      [] loader = "weblectures" -> {"weblectures"}
      [] loader = "conferences" -> {"zoom"}

\* the command line of a section: the list flag and the download directory
Options == [list : BOOLEAN, dest : BOOLEAN]

\* the command lines run: every one for the conferences, and for the other
\* sections both options or none
OptionsOf(loader) ==
    IF loader = "conferences" THEN Options ELSE {o \in Options : o.list = o.dest}

\* "if do_x || x_download_destination.is_some()"
Enabled(opt) == opt.list \/ opt.dest

RECURSIVE SectionFrom(_, _)
\* the first section from s on that the command line asks for, 5 when none is left
SectionFrom(opts, s) ==
    IF s > Len(Loaders) THEN s
    ELSE IF Enabled(opts[s]) THEN s
    ELSE SectionFrom(opts, s + 1)

\* what the server has for module m in family f
Exists(m, f, zoom_has) == f # "zoom" \/ m \in zoom_has

\* what the load of one module returns: everything, or an error when the loading
\* of any of the loader's families failed
LoadedOf(loader, m, fails, zoom_has) ==
    IF fails = {} THEN {<<m, f>> : f \in {g \in FamiliesOf(loader) : Exists(m, g, zoom_has)}}
    ELSE {}

\* login_zoom is called whatever the list holds
NeedsLoginAlways(list) == TRUE

\* "if !module_conferences.is_empty()"
NeedsLogin(list) == list # {}

MainIdle ==
    /\ mn_pc = "off"
    /\ mn_opts = <<>>
    /\ mn_zoom_has = {}
    /\ mn_sec = 0
    /\ mn_loaded = {}
    /\ mn_failed = {}
    /\ mn_printed = {}
    /\ mn_list = {}
    /\ mn_returned = {}
    /\ mn_listed = {}
    /\ mn_downloaded = {}
    /\ mn_logins = <<>>
    /\ mn_ret = "none"

\* main after api.modules returned
MainInit ==
    /\ mn_opts \in {o \in [1..Len(Loaders) -> Options] :
                       \A s \in 1..Len(Loaders) : o[s] \in OptionsOf(Loaders[s])}
    /\ mn_zoom_has \in SUBSET Mods
    /\ mn_sec = SectionFrom(mn_opts, 1)
    /\ mn_pc = IF mn_sec > Len(Loaders) THEN "done" ELSE "load"
    /\ mn_loaded = {}
    /\ mn_failed = {}
    /\ mn_printed = {}
    /\ mn_list = {}
    /\ mn_returned = {}
    /\ mn_listed = {}
    /\ mn_downloaded = {}
    /\ mn_logins = <<>>
    /\ mn_ret = IF mn_sec > Len(Loaders) THEN "Ok" ELSE "none"

\* the section is over: on to the next one that is asked for, or Ok(())
Advance ==
    /\ mn_sec' = SectionFrom(mn_opts, mn_sec + 1)
    /\ mn_loaded' = {}
    /\ mn_list' = {}
    /\ IF mn_sec' > Len(Loaders)
          THEN mn_pc' = "done" /\ mn_ret' = "Ok"
          ELSE mn_pc' = "load" /\ UNCHANGED mn_ret

\* the load of module m ends, with a loading failure in the families fails; the
\* last one ends the join_all: the errors are printed, the resources listed
ModuleLoaded(m, fails) ==
    /\ UNCHANGED NonMain
    /\ mn_pc = "load"
    /\ m \in Mods \ mn_loaded
    /\ fails \subseteq FamiliesOf(Loaders[mn_sec])
    /\ mn_failed' = mn_failed \cup {<<m, f>> : f \in fails}
    /\ mn_printed' = IF fails = {} THEN mn_printed
                     ELSE mn_printed \cup {<<m, Loaders[mn_sec]>>}
    /\ LET list == mn_list \cup LoadedOf(Loaders[mn_sec], m, fails, mn_zoom_has) IN
       IF mn_loaded \cup {m} # Mods
          THEN /\ mn_loaded' = mn_loaded \cup {m}
               /\ mn_list' = list
               /\ UNCHANGED <<mn_pc, mn_sec, mn_returned, mn_listed, mn_ret>>
          ELSE /\ mn_returned' = mn_returned \cup list
               /\ mn_listed' = IF mn_opts[mn_sec].list THEN mn_listed \cup list ELSE mn_listed
               /\ IF ~mn_opts[mn_sec].dest
                     THEN Advance
                  ELSE IF Loaders[mn_sec] # "conferences"
                     THEN /\ mn_pc' = "download"
                          /\ mn_loaded' = mn_loaded \cup {m}
                          /\ mn_list' = list
                          /\ UNCHANGED <<mn_sec, mn_ret>>
                  ELSE IF NeedsLogin(list)
                     THEN /\ mn_pc' = "login"
                          /\ mn_loaded' = mn_loaded \cup {m}
                          /\ mn_list' = list
                          /\ UNCHANGED <<mn_sec, mn_ret>>
                  ELSE Advance
    /\ UNCHANGED <<mn_opts, mn_zoom_has, mn_downloaded, mn_logins>>

\* api.login_zoom() returns; its error is printed and the section is over
LoginZoom(r) ==
    /\ UNCHANGED NonMain
    /\ mn_pc = "login"
    /\ mn_logins' = Append(mn_logins, r)
    /\ IF r = "Ok"
          THEN mn_pc' = "download" /\ UNCHANGED <<mn_sec, mn_loaded, mn_list, mn_ret>>
          ELSE Advance
    /\ UNCHANGED <<mn_opts, mn_zoom_has, mn_failed, mn_printed, mn_returned, mn_listed,
                   mn_downloaded>>

\* download_resources(...).await? over what the loader returned
DownloadSection(r) ==
    /\ UNCHANGED NonMain
    /\ mn_pc = "download"
    /\ IF r = "Ok"
          THEN mn_downloaded' = mn_downloaded \cup mn_list /\ Advance
          ELSE /\ mn_pc' = "done"
               /\ mn_ret' = "Err"
               /\ UNCHANGED <<mn_downloaded, mn_sec, mn_loaded, mn_list>>
    /\ UNCHANGED <<mn_opts, mn_zoom_has, mn_failed, mn_printed, mn_returned, mn_listed,
                   mn_logins>>

NextMain ==
    \/ \E m \in Mods, fails \in SUBSET Pools : ModuleLoaded(m, fails)
    \/ \E r \in DlResults : LoginZoom(r)
    \/ \E r \in DlResults : DownloadSection(r)

(***************************************************************************)
(* ZoomRecording::get_download_url, and the download that follows it in    *)
(* do_retryable_download for a destination that does not exist yet.        *)
(***************************************************************************)
\* ZOOM_PASSWORD_URL_PREFIX
ZoomPasswordUrlPrefix == <<"/", "rec", "/", "share">>

\* the paths a share URL can end on after its redirects
SharePaths ==
    {<<"/", "rec", "/", "share", "/", "x">>,
     <<"/", "rec", "/", "share", "d">>,
     <<"/", "rec", "/", "play", "/", "x">>}

\* str::starts_with
StartsWith(s, prefix) ==
    Len(s) >= Len(prefix) /\ SubSeq(s, 1, Len(prefix)) = prefix

\* what custom_request gives: an error, or the path the response ended on
GetAnswers == {<<"err">>} \cup SharePaths

\* what the validation POST gives: an error, a body that does not parse, or its status
PostAnswers == {"err", "badjson", "true", "false"}

\* what the password page gives: the meeting id, no text, or no #meetId
PageAnswers == {"ok", "notext", "noid"}

\* a status that is not looked at
StatusIgnored(answer) == TRUE

\* "if !validate_resp_data.status { return Err(...) }"
StatusOk(answer) == answer = "true"

ZuIdle ==
    /\ zu_pc = "off"
    /\ zu_reqs = <<>>
    /\ zu_first = <<>>
    /\ zu_page = "none"
    /\ zu_post = "none"
    /\ zu_second = <<>>
    /\ zu_url = "none"
    /\ zu_result = "none"
    /\ zu_dest = "none"
    /\ zu_ret = "none"

\* what prepare_path leaves at the destination
DestAfterPrepare(answer) ==
    IF answer \in {"NewFile", "Renamed"} THEN "none" ELSE "old"

\* download is called and prepare_path has answered
ZuInit ==
    /\ zu_pc = "start"
    /\ zu_reqs = <<>>
    /\ zu_first = <<>>
    /\ zu_page = "none"
    /\ zu_post = "none"
    /\ zu_second = <<>>
    /\ zu_url = "none"
    /\ zu_result \in Downloaded \cup {"AlreadyHave", "Skipped"}
    /\ zu_dest = DestAfterPrepare(zu_result)
    /\ zu_ret = "none"

\* should_download is false: the result is returned and nothing is asked for
ZuNoDownload ==
    /\ UNCHANGED NonZu
    /\ zu_pc = "start"
    /\ zu_result \notin Downloaded
    /\ zu_pc' = "done"
    /\ zu_ret' = "Ok"
    /\ UNCHANGED <<zu_reqs, zu_first, zu_page, zu_post, zu_second, zu_url, zu_result, zu_dest>>

\* get_download_url returns an error, and do_retryable_download with it
ZuFail ==
    /\ zu_pc' = "done"
    /\ zu_url' = "Err"
    /\ zu_ret' = "Err"

\* Url::parse(&self.share_url) fails
ZuParseError ==
    /\ UNCHANGED NonZu
    /\ zu_pc = "start"
    /\ zu_result \in Downloaded
    /\ ZuFail
    /\ UNCHANGED <<zu_reqs, zu_first, zu_page, zu_post, zu_second, zu_result, zu_dest>>

\* the first GET of the share URL
ZuFirstGet(answer) ==
    /\ UNCHANGED NonZu
    /\ zu_pc = "start"
    /\ zu_result \in Downloaded
    /\ zu_reqs' = Append(zu_reqs, "GET share")
    /\ zu_first' = answer
    /\ IF answer = <<"err">> THEN ZuFail
       ELSE /\ zu_pc' = IF StartsWith(answer, ZoomPasswordUrlPrefix) THEN "password" ELSE "video"
            /\ UNCHANGED <<zu_url, zu_ret>>
    /\ UNCHANGED <<zu_page, zu_post, zu_second, zu_result, zu_dest>>

\* the password page is read, the meeting id looked up, the password posted and
\* the answer parsed
ZuValidate(page, answer) ==
    /\ UNCHANGED NonZu
    /\ zu_pc = "password"
    /\ zu_page' = page
    /\ IF page # "ok"
          THEN ZuFail /\ UNCHANGED <<zu_reqs, zu_post>>
          ELSE /\ zu_reqs' = Append(zu_reqs, "POST validate")
               /\ zu_post' = answer
               /\ IF answer \in {"err", "badjson"} \/ ~StatusOk(answer)
                     THEN ZuFail
                     ELSE zu_pc' = "second" /\ UNCHANGED <<zu_url, zu_ret>>
    /\ UNCHANGED <<zu_first, zu_second, zu_result, zu_dest>>

\* the second GET of the share URL
ZuSecondGet(answer) ==
    /\ UNCHANGED NonZu
    /\ zu_pc = "second"
    /\ zu_reqs' = Append(zu_reqs, "GET share")
    /\ zu_second' = answer
    /\ IF answer = <<"err">> \/ StartsWith(answer, ZoomPasswordUrlPrefix)
          THEN ZuFail
          ELSE zu_pc' = "video" /\ UNCHANGED <<zu_url, zu_ret>>
    /\ UNCHANGED <<zu_first, zu_page, zu_post, zu_result, zu_dest>>

\* the video page is read and viewMp4Url taken out of it
ZuVideoPage(found) ==
    /\ UNCHANGED NonZu
    /\ zu_pc = "video"
    /\ IF found
          THEN zu_pc' = "download" /\ zu_url' = "Ok" /\ UNCHANGED zu_ret
          ELSE ZuFail
    /\ UNCHANGED <<zu_reqs, zu_first, zu_page, zu_post, zu_second, zu_result, zu_dest>>

\* the download of the MP4: the request is sent; dest exists after a success
ZuDownload(r) ==
    /\ UNCHANGED NonZu
    /\ zu_pc = "download"
    /\ zu_reqs' = Append(zu_reqs, "GET mp4")
    /\ zu_dest' = IF r = "Ok" THEN "new" ELSE zu_dest
    /\ zu_pc' = "done"
    /\ zu_ret' = r
    /\ UNCHANGED <<zu_first, zu_page, zu_post, zu_second, zu_url, zu_result>>

NextZu ==
    \/ ZuNoDownload
    \/ ZuParseError
    \/ \E answer \in GetAnswers : ZuFirstGet(answer)
    \/ \E page \in PageAnswers, answer \in PostAnswers : ZuValidate(page, answer)
    \/ \E answer \in GetAnswers : ZuSecondGet(answer)
    \/ \E found \in BOOLEAN : ZuVideoPage(found)
    \/ \E r \in DlResults : ZuDownload(r)

(***************************************************************************)
(* prepare_path in Rename mode: the names tried for the old file.          *)
(* The models of the file names are sequences of characters, with the      *)
(* "_autorename_" and the date as one character each.                      *)
(***************************************************************************)
\* the old files with a name of the search that may lie in the directory
MaxProbe == 3

\* the names of the file that is renamed
RenameNames ==
    {<<"a">>, <<"a", ".", "p">>, <<"a", ".", "t", ".", "g">>, <<".", "p">>, <<"a", ".">>}

\* format!("_autorename_{:04}-{:02}-{:02}", ...) for the day of the old file
AutorenameSuffix == <<"_autorename_", "2024-03-01">>

\* Path::file_stem and Path::extension in place of the split at the first '.'
SplitAtLastDot(name) == [stem |-> FileStem(name), ext |-> Extension(name)]

\* split_file_name_into_step_and_extension_properly: at the first '.'
SplitProperly(name) ==
    IF DotsOf(name) = {} THEN [stem |-> name, ext |-> NoExt]
    ELSE LET pos == CHOOSE i \in DotsOf(name) : \A j \in DotsOf(name) : i <= j
         IN [stem |-> SubSeq(name, 1, pos - 1),
             ext |-> [some |-> TRUE, val |-> SubSeq(name, pos + 1, Len(name))]]

\* Path::with_extension on a file name: what follows the last '.' is replaced,
\* and an empty extension adds nothing
WithExtension(name, ext) ==
    IF name = <<>> \/ name = <<".", ".">> THEN name
    ELSE FileStem(name) \o (IF ext = <<>> THEN <<>> ELSE <<".">> \o ext)

\* suffixed_stem of the i-th turn of the loop
SuffixedStem(name, i) ==
    SplitProperly(name).stem \o AutorenameSuffix
    \o (IF i = 0 THEN <<>> ELSE <<"_">> \o UsizeToString(i))

\* the file name of renamed_path in the i-th turn of the loop
RenamedName(name, i) ==
    IF SplitProperly(name).ext.some
        THEN WithExtension(SuffixedStem(name, i), SplitProperly(name).ext.val)
        ELSE SuffixedStem(name, i)

RenameIdle ==
    /\ rn_pc = "off"
    /\ rn_name = <<>>
    /\ rn_files = {}
    /\ rn_i = 0
    /\ rn_tried = <<>>
    /\ rn_ret = "none"

\* prepare_path has found the old file out of date, in Rename mode
RenameInit ==
    /\ rn_pc = "loop"
    /\ rn_name \in RenameNames
    /\ rn_files \in {{rn_name} \cup {RenamedName(rn_name, i) : i \in s} : s \in SUBSET (0..(MaxProbe - 1))}
    /\ rn_i = 0
    /\ rn_tried = <<>>
    /\ rn_ret = "none"

\* one turn of the loop: the name is taken by a file, and the next one is made
RenameTaken ==
    /\ UNCHANGED NonRename
    /\ rn_pc = "loop"
    /\ RenamedName(rn_name, rn_i) \in rn_files
    /\ rn_tried' = Append(rn_tried, RenamedName(rn_name, rn_i))
    /\ rn_i' = rn_i + 1
    /\ UNCHANGED <<rn_pc, rn_name, rn_files, rn_ret>>

\* the last turn of the loop: the name is free, and the old file is renamed to it
RenameFree(ok) ==
    /\ UNCHANGED NonRename
    /\ rn_pc = "loop"
    /\ RenamedName(rn_name, rn_i) \notin rn_files
    /\ rn_tried' = Append(rn_tried, RenamedName(rn_name, rn_i))
    /\ rn_pc' = "done"
    /\ IF ok
          THEN /\ rn_files' = (rn_files \ {rn_name}) \cup {RenamedName(rn_name, rn_i)}
               /\ rn_ret' = "Renamed"
          ELSE /\ rn_ret' = "Err"
               /\ UNCHANGED rn_files
    /\ UNCHANGED <<rn_name, rn_i>>

NextRename ==
    \/ RenameTaken
    \/ \E ok \in BOOLEAN : RenameFree(ok)

(***************************************************************************)
(* The paths of workbin files: DirectoryHandle::load builds them from the  *)
(* names the server gives, download_resources derives the real and the     *)
(* temp path from them.  Paths are strings, read as std::path::Path reads  *)
(* them.                                                                   *)
(***************************************************************************)
\* the directories below the module root that are followed
MaxDepth == 2

\* the length of a name the server gives
MaxServerName == 2

ServerChars == {".", " ", "/", "a"}

ServerNames == UNION {[1..n -> ServerChars] : n \in 0..MaxServerName}

\* the download destination and the root path of the module's workbin
Destination == <<"D">>

ModuleRoot == <<"M">>

RECURSIVE Pieces(_)
\* the parts of a path string between its separators
Pieces(s) ==
    IF Slashes(s) = {} THEN <<s>>
    ELSE LET i == CHOOSE k \in Slashes(s) : \A j \in Slashes(s) : k <= j
         IN <<SubSeq(s, 1, i - 1)>> \o Pieces(SubSeq(s, i + 1, Len(s)))

CurDir == <<".">>

ParentDir == <<".", ".">>

RECURSIVE KeptPieces(_, _)
\* Path::components of a relative path: empty parts are dropped, "." is dropped
\* unless it comes first
KeptPieces(ps, first) ==
    IF ps = <<>> THEN <<>>
    ELSE IF Head(ps) = <<>> \/ (Head(ps) = CurDir /\ ~first)
        THEN KeptPieces(Tail(ps), FALSE)
        ELSE <<Head(ps)>> \o KeptPieces(Tail(ps), FALSE)

PathComponents(s) == IF s = <<>> THEN <<>> ELSE KeptPieces(Pieces(s), TRUE)

None == [some |-> FALSE, val |-> <<>>]

Some(v) == [some |-> TRUE, val |-> v]

\* Path::file_name: the last component when it is a normal one
PathFileName(s) ==
    LET c == PathComponents(s)
    IN IF c # <<>> /\ c[Len(c)] \notin {CurDir, ParentDir} THEN Some(c[Len(c)]) ELSE None

RECURSIVE JoinPieces(_)
JoinPieces(c) ==
    IF c = <<>> THEN <<>>
    ELSE IF Len(c) = 1 THEN c[1]
    ELSE c[1] \o <<"/">> \o JoinPieces(Tail(c))

\* Path::parent: the path without its last component
PathParent(s) ==
    LET c == PathComponents(s)
    IN IF c = <<>> THEN None ELSE Some(JoinPieces(SubSeq(c, 1, Len(c) - 1)))

\* Path::join: an absolute path replaces, anything else is put after a separator
PathJoin(p, name) ==
    IF name # <<>> /\ name[1] = "/" THEN name
    ELSE IF p = <<>> THEN name
    ELSE IF p[Len(p)] = "/" THEN p \o name
    ELSE p \o <<"/">> \o name

\* make_temp_file_name: "~!" before the file name
MakeTempFileName(name) == <<"~", "!">> \o name

PathIdle ==
    /\ lp_pc = "off"
    /\ lp_name = <<>>
    /\ lp_path = <<>>
    /\ lp_depth = 0
    /\ lp_real = <<>>
    /\ lp_temp = <<>>
    /\ lp_ret = "none"

\* the root DirectoryHandle of a module
PathInit ==
    /\ lp_pc = "dir"
    /\ lp_name = <<>>
    /\ lp_path = ModuleRoot
    /\ lp_depth = 0
    /\ lp_real = <<>>
    /\ lp_temp = <<>>
    /\ lp_ret = "none"

\* DirectoryHandle::load, get_subdirs: the handle of a subdirectory named n
LoadSubdir(n) ==
    /\ UNCHANGED NonPath
    /\ lp_pc = "dir"
    /\ lp_depth < MaxDepth
    /\ lp_name' = n
    /\ lp_path' = PathJoin(lp_path, SanitiseFilename(n))
    /\ lp_depth' = lp_depth + 1
    /\ UNCHANGED <<lp_pc, lp_real, lp_temp, lp_ret>>

\* DirectoryHandle::load, get_files: the File named n of a folder that does not
\* allow uploads
LoadFile(n) ==
    /\ UNCHANGED NonPath
    /\ lp_pc = "dir"
    /\ lp_name' = n
    /\ lp_path' = PathJoin(lp_path, SanitiseFilename(n))
    /\ lp_pc' = "file"
    /\ UNCHANGED <<lp_depth, lp_real, lp_temp, lp_ret>>

\* download_resources: the closure that makes temp_path and real_path of a file;
\* unwrap() of None panics
DownloadResources ==
    /\ UNCHANGED NonPath
    /\ lp_pc = "file"
    /\ lp_pc' = "done"
    /\ IF PathParent(lp_path).some /\ PathFileName(lp_path).some
          THEN /\ lp_temp' = PathJoin(PathJoin(Destination, PathParent(lp_path).val),
                                      MakeTempFileName(PathFileName(lp_path).val))
               /\ lp_real' = PathJoin(Destination, lp_path)
               /\ lp_ret' = "ok"
          ELSE /\ lp_ret' = "panic"
               /\ UNCHANGED <<lp_temp, lp_real>>
    /\ UNCHANGED <<lp_name, lp_path, lp_depth>>

NextPath ==
    \/ \E n \in ServerNames : LoadSubdir(n)
    \/ \E n \in ServerNames : LoadFile(n)
    \/ DownloadResources

(***************************************************************************)
(* The multimedia section of main: load_modules_multimedia makes the paths *)
(* of each list unique, then the internal and the external videos are      *)
(* downloaded by two download_resources running at once into one           *)
(* destination.                                                            *)
(***************************************************************************)
\* the videos of one kind that the module has
MaxVideos == 2

\* the download slots of each of the two download_resources (main)
Parallelism(pool) == IF pool = "internal" THEN BudgetInternal ELSE BudgetExternal

MultimediaPools == {"internal", "external"}

\* file names of videos; one looks like the temp name of the other
VideoNames == {<<"a">>, <<"~", "!", "a">>}

VideoPaths == {[dir |-> d, name |-> n] : d \in Dirs, n \in VideoNames}

\* the id of the k-th video of a pool
VideoId(pool, k) == IF pool = "internal" THEN IdOf(k) ELSE <<"x">> \o IdOf(k)

\* the last_updated values of a pool: ExternalVideo::last_updated is UNIX_EPOCH
VideoStamps(pool) == IF pool = "internal" THEN 0..MaxStamp ELSE {EPOCH}

\* the lists of n videos that Multimedia::load may return for a pool
VideoLists(pool, n) ==
    {[k \in 1..n |-> [id |-> VideoId(pool, k), path |-> f[k][1], last_updated |-> f[k][2]]]
        : f \in [1..n -> VideoPaths \X VideoStamps(pool)]}

\* the results sort_and_make_all_paths_unique may leave for the list s
UniqueResults(s) ==
    {FoldFrom([i \in DOMAIN s |-> s[perm[i]]], 1, EmptyPath) :
        perm \in {q \in Permutations(DOMAIN s) : IsSorted([i \in DOMAIN s |-> s[q[i]]])}}

\* download_resources: real_path = dest_path.join(file.path())
RealPath(r) == [dir |-> <<Destination>> \o r.path.dir, name |-> r.path.name]

\* download_resources: temp_path = dest_path.join(parent).join(make_temp_file_name(file_name))
TempPath(r) ==
    [dir |-> <<Destination>> \o r.path.dir, name |-> MakeTempFileName(r.path.name)]

FlightIdle ==
    /\ fl_pc = "off"
    /\ fl_loaded = [p \in MultimediaPools |-> <<>>]
    /\ fl_lists = [p \in MultimediaPools |-> <<>>]
    /\ fl_next = [p \in MultimediaPools |-> 1]
    /\ fl_running = [p \in MultimediaPools |-> {}]

\* what Multimedia::load returned for the module: (ivs, evs)
FlightInit ==
    /\ fl_pc = "loaded"
    /\ \E ni, ne \in 0..MaxVideos :
          \E ivs \in VideoLists("internal", ni), evs \in VideoLists("external", ne) :
              fl_loaded = [internal |-> ivs, external |-> evs]
    /\ fl_lists = [p \in MultimediaPools |-> <<>>]
    /\ fl_next = [p \in MultimediaPools |-> 1]
    /\ fl_running = [p \in MultimediaPools |-> {}]

\* load_modules_multimedia: sort_and_make_all_paths_unique(&mut ivs), (&mut evs);
\* main then starts both download_resources with future::join
LoadModulesMultimedia ==
    /\ UNCHANGED NonFlight
    /\ fl_pc = "loaded"
    /\ \E ivs \in UniqueResults(fl_loaded.internal),
          evs \in UniqueResults(fl_loaded.external) :
              fl_lists' = [internal |-> ivs, external |-> evs]
    /\ fl_pc' = "download"
    /\ UNCHANGED <<fl_loaded, fl_next, fl_running>>

\* buffer_unordered(parallelism): the next download_resource of a pool is started
\* while a slot is free
FlightStart(pool) ==
    /\ UNCHANGED NonFlight
    /\ fl_pc = "download"
    /\ fl_next[pool] <= Len(fl_lists[pool])
    /\ Cardinality(fl_running[pool]) < Parallelism(pool)
    /\ fl_running' = [fl_running EXCEPT ![pool] = @ \cup {fl_next[pool]}]
    /\ fl_next' = [fl_next EXCEPT ![pool] = @ + 1]
    /\ UNCHANGED <<fl_pc, fl_loaded, fl_lists>>

\* a download_resource of the pool returns
FlightFinish(pool, k) ==
    /\ UNCHANGED NonFlight
    /\ fl_pc = "download"
    /\ k \in fl_running[pool]
    /\ fl_running' = [fl_running EXCEPT ![pool] = @ \ {k}]
    /\ UNCHANGED <<fl_pc, fl_loaded, fl_lists, fl_next>>

\* future::join returns when both download_resources have returned
FlightJoin ==
    /\ UNCHANGED NonFlight
    /\ fl_pc = "download"
    /\ \A p \in MultimediaPools : fl_next[p] > Len(fl_lists[p]) /\ fl_running[p] = {}
    /\ fl_pc' = "done"
    /\ UNCHANGED <<fl_loaded, fl_lists, fl_next, fl_running>>

NextFlight ==
    \/ LoadModulesMultimedia
    \/ \E p \in MultimediaPools : FlightStart(p)
    \/ \E p \in MultimediaPools, k \in 1..MaxVideos : FlightFinish(p, k)
    \/ FlightJoin

(***************************************************************************)
(* The specifications.                                                     *)
(***************************************************************************)
DlIdle ==
    /\ pc = "off"
    /\ calls = 0
    /\ kind = "simple"
    /\ now = 0
    /\ mode = "Skip"
    /\ last_updated = 0
    /\ metadata = NoMeta
    /\ result = Res("none", NoCand)
    /\ ret = "none"
    /\ err = ""
    /\ dest = NoFile
    /\ temp = NoFile
    /\ renamed = [c \in Cands |-> NoFile]
    /\ before_data = 0
    /\ attempt = 0
    /\ outcome = "none"
    /\ pre = Fs
    /\ prev = NoPrev
    /\ url_calls = 0
    /\ call_attempts = 0
    /\ ok_attempts = {}
    /\ status = 0

\* the first four parts at rest
CoreIdle == DlIdle /\ UqIdle /\ HttpIdle /\ ZoomIdle

\* the later parts at rest
LateIdle == MuxIdle /\ DirIdle /\ MainIdle /\ ZuIdle /\ RenameIdle /\ PathIdle /\ FlightIdle

MoreIdle == ModIdle /\ SanIdle /\ PoolIdle /\ LoginIdle /\ LateIdle

EarlyIdle == CoreIdle /\ ModIdle /\ SanIdle /\ PoolIdle /\ LoginIdle

InitDl == DlInit /\ UqIdle /\ HttpIdle /\ ZoomIdle /\ MoreIdle

InitUq == DlIdle /\ UqInit /\ HttpIdle /\ ZoomIdle /\ MoreIdle

InitHttp == DlIdle /\ UqIdle /\ HttpInit /\ ZoomIdle /\ MoreIdle

InitZoom == DlIdle /\ UqIdle /\ HttpIdle /\ ZoomInit /\ MoreIdle

InitMod == CoreIdle /\ ModInit /\ SanIdle /\ PoolIdle /\ LoginIdle /\ LateIdle

InitSan == CoreIdle /\ ModIdle /\ SanInit /\ PoolIdle /\ LoginIdle /\ LateIdle

InitPool == CoreIdle /\ ModIdle /\ SanIdle /\ PoolInit /\ LoginIdle /\ LateIdle

InitLogin == CoreIdle /\ ModIdle /\ SanIdle /\ PoolIdle /\ LoginInit /\ LateIdle

\* one resource downloaded, possibly several times, to one destination
SpecDownload == InitDl /\ [][NextDl]_vars

\* one batch of resources made unique
SpecUnique == InitUq /\ [][NextUq]_vars

\* one call of infinite_retry_http
SpecHttp == InitHttp /\ [][NextHttp]_vars

\* one call of load_cloud_record
SpecZoom == InitZoom /\ [][NextZoom]_vars

\* one call of Api::modules
SpecModules == InitMod /\ [][NextMod]_vars

\* sanitise_filename applied to a name, and to its own result
SpecSanitise == InitSan /\ [][NextSan]_vars

\* one phase of main that downloads: one call of download_resources, or two joined
SpecPools == InitPool /\ [][NextPool]_vars

\* one call of Api::with_login
SpecLogin == InitLogin /\ [][NextLogin]_vars

InitMux == EarlyIdle /\ MuxInit /\ DirIdle /\ MainIdle /\ ZuIdle /\ RenameIdle /\ PathIdle /\ FlightIdle

\* stream_and_mux_videos
SpecMux == InitMux /\ [][NextMux]_vars

InitDir == EarlyIdle /\ MuxIdle /\ DirInit /\ MainIdle /\ ZuIdle /\ RenameIdle /\ PathIdle /\ FlightIdle

\* DirectoryHandle::load
SpecDir == InitDir /\ [][NextDir]_vars

InitMain == EarlyIdle /\ MuxIdle /\ DirIdle /\ MainInit /\ ZuIdle /\ RenameIdle /\ PathIdle /\ FlightIdle

\* main
SpecMain == InitMain /\ [][NextMain]_vars

InitZu == EarlyIdle /\ MuxIdle /\ DirIdle /\ MainIdle /\ ZuInit /\ RenameIdle /\ PathIdle /\ FlightIdle

\* ZoomRecording::get_download_url
SpecZoomUrl == InitZu /\ [][NextZu]_vars

InitRename == EarlyIdle /\ MuxIdle /\ DirIdle /\ MainIdle /\ ZuIdle /\ RenameInit /\ PathIdle /\ FlightIdle

\* prepare_path in Rename mode
SpecRename == InitRename /\ [][NextRename]_vars

InitPath ==
    EarlyIdle /\ MuxIdle /\ DirIdle /\ MainIdle /\ ZuIdle /\ RenameIdle /\ PathInit /\ FlightIdle

SpecPath == InitPath /\ [][NextPath]_vars

InitFlight ==
    EarlyIdle /\ MuxIdle /\ DirIdle /\ MainIdle /\ ZuIdle /\ RenameIdle /\ PathIdle /\ FlightInit

SpecFlight == InitFlight /\ [][NextFlight]_vars

(***************************************************************************)
(* Properties of the download engine (SpecDownload).                       *)
(***************************************************************************)
\* dest is absent, is the file the call found there, or holds the complete body
\* written by an attempt that returned Ok
DestIsWhole ==
    \/ ~dest.exists
    \/ dest = pre.dest
    \/ \E a \in ok_attempts : dest.bytes = Complete(a)

\* a step that puts other bytes at dest is the rename of temp_dest after an Ok attempt
DestOnlyByCommit ==
    (dest'.exists /\ dest'.bytes # dest.bytes)
        => /\ pc = "attempt_done"
           /\ outcome = "Ok"
           /\ attempt \in ok_attempts
           /\ dest' = temp
           /\ ~temp'.exists

\* C1: at every point during and after a download call (any mode, any sequence
\* of Retry/Fail/Ok attempts, a process abort between two steps included) the
\* file at dest is absent, the pre-existing file unchanged, or the complete output
\* of one successful attempt, and bytes reach dest only through the rename of
\* temp_dest that follows an Ok attempt.
C1_DestNeverPartial == []DestIsWhole /\ [][DestOnlyByCommit]_vars

\* C1 witness: a call retried once, then committed the second attempt's body
C1_Witness ==
    /\ pc = "idle"
    /\ ret = "Ok"
    /\ call_attempts = 2
    /\ pre.dest.exists
    /\ dest.bytes = Complete(attempt)

\* C2 (as claimed): after any download call that returns Err, whatever step
\* failed, dest does not exist or has exactly the bytes and mtime it had before
\* the call.
C2_ErrLeavesDestAsBefore ==
    (pc = "idle" /\ ret = "Err") => (~dest.exists \/ dest = pre.dest)

\* C3: in every overwrite mode, if dest exists and last_updated <= mtime(dest), the
\* call changes nothing in the filesystem (dest not renamed, rewritten or
\* re-stamped, no temp file created), runs neither URL acquisition nor a download
\* attempt, and, having read the metadata of dest, returns AlreadyHave.
C3_AlreadyHaveTouchesNothing ==
    (/\ calls > 0
     /\ pre.dest.exists
     /\ last_updated <= pre.dest.mtime)
        => /\ Fs = pre
           /\ url_calls = 0
           /\ call_attempts = 0
           /\ before_data = 0
           /\ pc \in {"metadata", "prepare_path", "idle", "aborted"}
           /\ (pc = "idle" /\ metadata.kind = "ok")
                 => (ret = "Ok" /\ result.tag = "AlreadyHave")
           /\ (pc = "idle" /\ ret = "Ok") => result.tag = "AlreadyHave"

\* C3 witness: Rename mode, last_updated equal to the mtime of dest
C3_Witness ==
    /\ pc = "idle"
    /\ ret = "Ok"
    /\ result.tag = "AlreadyHave"
    /\ mode = "Rename"
    /\ dest.exists
    /\ last_updated = dest.mtime

\* the call returned Ok after downloading: dest carries last_updated
StampedOnOk ==
    (pc = "idle" /\ ret = "Ok" /\ result.tag \in Downloaded)
        => /\ dest.exists
           /\ dest.mtime = last_updated
           /\ kind = "external_video" => dest.mtime = 0

MtimeSet(f, g) == f.exists /\ g.exists /\ f.bytes = g.bytes /\ f.mtime # g.mtime

\* a step that sets the mtime of a file sets that of dest, after the commit rename
\* of this call, to last_updated
StampOnlyAfterCommit ==
    /\ ~MtimeSet(temp, temp')
    /\ \A c \in Cands : ~MtimeSet(renamed[c], renamed'[c])
    /\ MtimeSet(dest, dest')
         => /\ pc = "stamp"
            /\ outcome = "Ok"
            /\ call_attempts > 0
            /\ dest.bytes = Complete(attempt)
            /\ dest'.mtime = last_updated

\* C4: whenever download returns Ok with NewFile, Overwritten or Renamed, dest has
\* mtime last_updated (the epoch for an external Panopto video), and the mtime is
\* set only after the commit rename: never on the temp file, never on a file that
\* was not downloaded in this call.
C4_MtimeIsLastUpdated == []StampedOnOk /\ [][StampOnlyAfterCommit]_vars

\* C4 witness: an overwrite whose last_updated differs from the local clock
C4_Witness ==
    /\ pc = "idle"
    /\ ret = "Ok"
    /\ result.tag = "Overwritten"
    /\ now # last_updated
    /\ dest.mtime = last_updated

\* C5: replay idempotence. If the call before returned Ok with NewFile, Overwritten
\* or Renamed and last_updated is unchanged, the next call finds dest, writes
\* nothing and requests nothing in every mode, and, having read the metadata of
\* dest, returns AlreadyHave.
C5_ReplayIsAlreadyHave ==
    (/\ calls >= 2
     /\ prev.downloaded
     /\ last_updated = prev.last_updated)
        => /\ metadata.kind # "notfound"
           /\ Fs = pre
           /\ url_calls = 0
           /\ call_attempts = 0
           /\ pc \in {"metadata", "prepare_path", "idle", "aborted"}
           /\ (pc = "idle" /\ metadata.kind = "ok")
                 => (ret = "Ok" /\ result.tag = "AlreadyHave")
           /\ (pc = "idle" /\ ret = "Ok") => result.tag = "AlreadyHave"

\* C5 witness: a replay in Overwrite mode after a NewFile download
C5_Witness ==
    /\ calls = 2
    /\ prev.downloaded
    /\ prev.tag = "NewFile"
    /\ last_updated = prev.last_updated
    /\ mode = "Overwrite"
    /\ pc = "idle"
    /\ ret = "Ok"
    /\ result.tag = "AlreadyHave"

\* C6 (as claimed): every Retry outcome is followed by a best-effort deletion of
\* temp_dest and another attempt, so that a call never returns an error because of
\* a Retry outcome: a call that returns Err after attempts had Fail as the outcome
\* of its last attempt.
C6_RetryNeverEndsTheCall ==
    (pc = "idle" /\ ret = "Err" /\ call_attempts > 0) => outcome # "Retry"

(***************************************************************************)
(* Properties of the path uniquifier (SpecUnique).                         *)
(***************************************************************************)
\* C7 (as claimed): for every batch with pairwise distinct ids, paths that already
\* look like <stem>_<id>.<ext> included, no two resources have the same path after
\* sort_and_make_all_paths_unique.
C7_PathsPairwiseDistinct ==
    uq_pc = "done"
        => \A i \in 1..Len(resources) : \A j \in 1..Len(resources) :
              i # j => resources[i].path # resources[j].path

\* the positions of the batch whose path before uniquification is p
Group(p) == {k \in 1..Len(batch) : batch[k].path = p}

\* the resource of the batch's k-th id after uniquification
After(k) == CHOOSE r \in {resources[i] : i \in 1..Len(resources)} : r.id = batch[k].id

\* C8: newest wins. Among the resources whose path before uniquification was p,
\* exactly one still has path p afterwards, its last_updated is the greatest among
\* them, and every other one of them has had its file name rewritten.
C8_NewestKeepsPath ==
    uq_pc = "done"
        => \A p \in {batch[k].path : k \in 1..Len(batch)} :
              \E w \in Group(p) :
                 /\ After(w).path = p
                 /\ \A k \in Group(p) : batch[k].last_updated <= batch[w].last_updated
                 /\ \A k \in Group(p) \ {w} :
                       /\ After(k).path # p
                       /\ After(k).path.name # batch[k].path.name

\* C8 witness: three resources at one path, the newest not unique
C8_Witness ==
    /\ uq_pc = "done"
    /\ Len(batch) = 3
    /\ \E p \in Paths : Group(p) = {1, 2, 3}
    /\ batch[1].last_updated < batch[2].last_updated
    /\ resources[1].id = batch[2].id \/ resources[1].id = batch[3].id

C10_Exactly5Requests ==
    (z_pc = "done" /\ z_ret.tag = "Ok" /\ z_all404) => z_requests = 5

\* a step in which a response with the code was received
Got(code) == z_requests' = z_requests + 1 /\ z_last' = code

\* C23: a response with code 400 never ends the loop of load_cloud_record and
\* leaves the count of 404 tries as it was, however many came before it; a
\* response with a code other than 400 and 404, or with no code, is accepted
\* at once.
C23_Retry400 ==
    [][/\ Got(400) => (z_pc' = "poll" /\ num_404_tries' = num_404_tries /\ z_ret' = z_ret)
       /\ \A code \in Codes \ {400, 404} :
             Got(code) => (z_pc' = "done" /\ z_ret'.tag = "Ok")]_vars

\* Max400 responses with code 400, no 404, and then a response that is accepted
C23_Witness ==
    /\ z_400s = Max400
    /\ num_404_tries = 0
    /\ z_requests = Max400 + 1
    /\ z_last = 200
    /\ z_pc = "done"
    /\ z_ret.tag = "Ok"

\* the names are pairwise distinct
PairwiseDistinct(s) == \A i, j \in DOMAIN s : i # j => s[i] # s[j]

\* C26 (as claimed): n >= 2 record instances give n recordings named
\* "<sanitised conference name> (i).mp4", i = 1..n in instance order, pairwise
\* distinct; one instance gives "<sanitised conference name>.mp4"; none, or an
\* absent list, gives no recording.
C26_RecordingNames ==
    (z_pc = "done" /\ z_ret.tag = "Ok") =>
        LET name == SanitiseFilename(z_name) IN
        /\ z_instances >= 2 =>
              /\ Len(z_paths) = z_instances
              /\ \A i \in 1..z_instances :
                    z_paths[i] = name \o <<" ", "(">> \o UsizeToString(i) \o <<")", ".", "mp4">>
              /\ PairwiseDistinct(z_paths)
        /\ z_instances = 1 => z_paths = <<name \o <<".", "mp4">> >>
        /\ z_instances <= 0 => z_paths = <<>>

(***************************************************************************)
(* Properties of Api::modules (SpecModules).                               *)
(***************************************************************************)
\* the modules of a list, as a set
ModSet(l) == {l[i] : i \in 1..Len(l)}

\* the term filter as the caller sees it: term = t, or term >= current term
Wanted(m) ==
    IF mo_term # NoTerm THEN m.term = mo_term ELSE CmpStr(m.term, mo_current) >= 0

\* C11: term filter. modules(Some(t)) returns only modules of the server's list
\* with term t, modules(None) only modules with term >= the current term; no
\* module that passes the filter is dropped except one whose code a retained
\* module carries.
C11_TermFilter ==
    (mo_pc = "done" /\ mo_ret.tag = "Ok")
        => /\ \A r \in ModSet(mo_ret.modules) : r \in ModSet(mo_server) /\ Wanted(r)
           /\ \A m \in ModSet(mo_server) :
                 Wanted(m) => \/ m \in ModSet(mo_ret.modules)
                              \/ \E r \in ModSet(mo_ret.modules) : r.code = m.code /\ r # m

\* C11 witness: no term given; one module is older than the current term, one is
\* dropped as a duplicate and one of the current term is returned
C11_Witness ==
    /\ mo_pc = "done"
    /\ mo_ret.tag = "Ok"
    /\ mo_term = NoTerm
    /\ \E m \in ModSet(mo_server) : ~Wanted(m)
    /\ \E m \in ModSet(mo_server) : Wanted(m) /\ m \notin ModSet(mo_ret.modules)
    /\ \E r \in ModSet(mo_ret.modules) : r.term = mo_current

\* C12: the list returned is sorted by code ascending with at most one module per
\* code, and the module retained for a code has the greatest term among the
\* modules of that code that passed the filter.
C12_SortedOnePerCode ==
    (mo_pc = "done" /\ mo_ret.tag = "Ok")
        => /\ \A i \in 1..Len(mo_ret.modules) : \A j \in (i + 1)..Len(mo_ret.modules) :
                 CmpStr(mo_ret.modules[i].code, mo_ret.modules[j].code) < 0
           /\ \A r \in ModSet(mo_ret.modules) : \A m \in ModSet(mo_server) :
                 (Wanted(m) /\ m.code = r.code) => CmpStr(m.term, r.term) <= 0
           /\ mo_warnings = Cardinality({m \in ModSet(mo_server) : Wanted(m)})
                               - Len(mo_ret.modules)

\* C12 witness: two codes returned, one of them present in two terms
C12_Witness ==
    /\ mo_pc = "done"
    /\ mo_ret.tag = "Ok"
    /\ Len(mo_ret.modules) = 2
    /\ mo_warnings = 1
    /\ \E m \in ModSet(mo_server) :
          /\ Wanted(m)
          /\ m.code = mo_ret.modules[1].code
          /\ m.term # mo_ret.modules[1].term

RenameCase ==
    /\ pc = "prepare_path"
    /\ metadata.kind = "ok"
    /\ mode = "Rename"
    /\ last_updated > metadata.mtime

\* the step of prepare_path in the Rename case: the first candidate of the old
\* file's date that does not exist receives the old file, or the rename fails and
\* nothing changes
RenameToFirstFree ==
    (RenameCase /\ pc' # "aborted")
        => \/ /\ pc' = "idle"
              /\ ret' = "Err"
              /\ err' = "Failed renaming existing file"
              /\ Fs' = Fs
           \/ /\ pc' = "before_download"
              /\ result'.tag = "Renamed"
              /\ result'.renamed_path[1] = Date(dest.mtime)
              /\ ~renamed[result'.renamed_path].exists
              /\ \A j \in 0..(result'.renamed_path[2] - 1) :
                    renamed[<<result'.renamed_path[1], j>>].exists
              /\ renamed' = [renamed EXCEPT ![result'.renamed_path] = dest]
              /\ ~dest'.exists
              /\ temp' = temp

\* a file at a candidate path is never overwritten, changed or removed
CandidatesKept == \A c \in Cands : renamed[c].exists => renamed'[c] = renamed[c]

\* C13: Rename mode with dest older than last_updated: the candidate search ends
\* at the first path of <stem>_autorename_<date of the old mtime>[_i]<.ext> that
\* does not exist, the old file is moved there, no existing file is overwritten,
\* the result is Renamed{renamed_path}; as candidate files stay where they are,
\* repeated Rename runs take pairwise distinct paths.
C13_RenameFirstFree ==
    /\ [](RenameCase => HasFree(renamed, Date(metadata.mtime)))
    /\ [][RenameToFirstFree /\ CandidatesKept]_vars

\* C13 witness: the second Rename run on the same dest, on the same day: the first
\* run took the path without suffix, this one takes the path with suffix _1
C13_Witness ==
    /\ calls = 2
    /\ result = Res("Renamed", <<0, 1>>)
    /\ renamed[<<0, 0>>] = MkFile(OldBytes, 0)
    /\ renamed[<<0, 1>>].exists
    /\ renamed[<<0, 1>>].bytes = Complete(1)
    /\ pc = "idle"
    /\ ret = "Ok"

\* the step prepare_path takes on each row of its decision table
DecisionTable ==
    (pc = "prepare_path" /\ pc' # "aborted")
        => /\ metadata.kind = "notfound"
                => /\ pc' = "before_download"
                   /\ result' = Res("NewFile", NoCand)
                   /\ Fs' = Fs
           /\ (metadata.kind = "ok" /\ last_updated > metadata.mtime /\ mode = "Skip")
                => /\ pc' = "idle"
                   /\ ret' = "Ok"
                   /\ result' = Res("Skipped", NoCand)
                   /\ Fs' = Fs
           /\ (metadata.kind = "ok" /\ last_updated > metadata.mtime /\ mode = "Overwrite")
                => /\ pc' = "before_download"
                   /\ result' = Res("Overwritten", NoCand)
                   /\ Fs' = Fs
           /\ (metadata.kind = "ok" /\ last_updated > metadata.mtime /\ mode = "Rename")
                => \/ /\ pc' = "before_download"
                      /\ result'.tag = "Renamed"
                      /\ ~dest'.exists
                      /\ renamed'[result'.renamed_path] = dest
                   \/ /\ pc' = "idle"
                      /\ ret' = "Err"
                      /\ Fs' = Fs
           /\ metadata.kind \in {"denied", "other", "nomtime"}
                => /\ pc' = "idle"
                   /\ ret' = "Err"
                   /\ err' # ""
                   /\ result' = Res("none", NoCand)
                   /\ Fs' = Fs

\* what prepare_path decides on is the file at dest; an overwritten dest stays in
\* place until the commit; a call that does not download requests nothing
DecisionFacts ==
    /\ metadata.kind = "notfound" => ~pre.dest.exists
    /\ metadata.kind = "ok" => (pre.dest.exists /\ metadata.mtime = pre.dest.mtime)
    /\ (result.tag = "Overwritten" /\ pc \notin {"stamp", "idle", "aborted"})
          => dest = pre.dest
    /\ (pc = "idle" /\ ret = "Err" /\ metadata.kind \in {"denied", "other", "nomtime"})
          => (url_calls = 0 /\ call_attempts = 0 /\ Fs = pre)
    /\ (pc = "idle" /\ result.tag = "Skipped")
          => (url_calls = 0 /\ call_attempts = 0 /\ Fs = pre)

\* C18: the decision table of prepare_path. dest absent: (download, NewFile); dest
\* older than last_updated: Skip gives (no download, Skipped) with the filesystem
\* unchanged, Overwrite (download, Overwritten) with dest in place until the
\* commit, Rename (download, Renamed) after moving the old file; a metadata error
\* other than not-found, permission denied included: Err, no download, no change.
C18_DecisionTable == []DecisionFacts /\ [][DecisionTable]_vars

\* C18 witness: permission denied on an existing dest, in Overwrite mode
C18_Witness ==
    /\ pc = "idle"
    /\ ret = "Err"
    /\ err = "Permission denied when retrieving file metadata"
    /\ mode = "Overwrite"
    /\ dest.exists
    /\ last_updated > dest.mtime

\* the steps of a call follow each other in the order of do_retryable_download
StepOrder ==
    /\ pc' = "prepare_path" => pc = "metadata"
    /\ pc' = "before_download" => (pc = "prepare_path" /\ result'.tag \in Downloaded)
    /\ pc' = "create_dir" => (pc = "before_download" /\ before_data' = 1)
    /\ (pc' = "attempt" /\ pc # "attempt")
          => \/ pc = "create_dir"
             \/ pc = "attempt_done" /\ outcome = "Retry" /\ ~temp'.exists
    /\ pc' = "send" => pc = "attempt"
    /\ (pc' = "stream" /\ pc # "stream") => pc = "send"
    /\ (pc' = "attempt_done" /\ pc # "attempt_done") => pc \in {"attempt", "send", "stream"}
    /\ pc' = "stamp" => (pc = "attempt_done" /\ outcome = "Ok" /\ dest' = temp /\ temp.exists)
    /\ (pc' = "idle" /\ ret' = "Ok" /\ result'.tag \in Downloaded /\ pc # "idle")
          => (pc = "stamp" /\ dest'.mtime = last_updated)

\* before_download runs once, before the first attempt, and what it returned is
\* what every attempt gets
BeforeDownloadOnce ==
    /\ url_calls' > url_calls => (pc = "before_download" /\ url_calls = 0 /\ call_attempts = 0)
    /\ (before_data' # before_data /\ pc' \notin {"metadata", "aborted"})
          => (pc = "before_download" /\ before_data = 0)
    /\ call_attempts' > call_attempts
          => (pc = "attempt" /\ url_calls = 1 /\ before_data = 1 /\ before_data' = 1)

\* where a call is tells which steps are behind it
StepsBehind ==
    /\ url_calls <= 1
    /\ pc \in {"metadata", "prepare_path", "before_download"}
          => (url_calls = 0 /\ call_attempts = 0 /\ before_data = 0)
    /\ pc = "create_dir" => (url_calls = 1 /\ call_attempts = 0 /\ before_data = 1)
    /\ pc \in {"attempt", "send", "stream", "attempt_done", "stamp"}
          => (url_calls = 1 /\ before_data = 1 /\ result.tag \in Downloaded)
    /\ pc \in {"send", "stream", "attempt_done", "stamp"} => call_attempts > 0
    /\ pc = "stamp" => (outcome = "Ok" /\ dest.bytes = Complete(attempt) /\ ~temp.exists)
    /\ (pc = "idle" /\ ret = "Ok" /\ result.tag \in Downloaded)
          => (url_calls = 1 /\ call_attempts > 0 /\ outcome = "Ok")

\* C19: within one download call the steps happen in the order prepare_path,
\* before_download, parent-directory creation, download attempts, commit rename,
\* mtime stamping, each after the previous one succeeded; before_download runs at
\* most once per call and its result is reused for every retry; the commit rename
\* never happens before an attempt returned Ok.
C19_StepsInOrder == []StepsBehind /\ [][StepOrder /\ BeforeDownloadOnce]_vars

\* C19 witness: a Rename call that retried once and then committed and stamped
C19_Witness ==
    /\ pc = "idle"
    /\ ret = "Ok"
    /\ result.tag = "Renamed"
    /\ call_attempts = 2
    /\ url_calls = 1
    /\ dest.mtime = last_updated

\* the messages of the Fail errors of download_chunks and stream_impl
FailMessages ==
    {"Unable to open temporary file", "Failed writing to disk", "Failed to start ffmpeg"}

\* the step after an attempt that returned Fail
FailStep ==
    (pc = "attempt_done" /\ outcome = "Fail" /\ pc' # "aborted")
        => /\ pc' = "idle"
           /\ ret' = "Err"
           /\ err \in FailMessages
           /\ err' = err
           /\ dest' = dest
           /\ renamed' = renamed
           /\ (temp' = temp \/ ~temp'.exists)
           /\ attempt' = attempt
           /\ call_attempts' = call_attempts

\* a call that returned Err after a Fail: dest is as prepare_path left it
FailLeavesDest ==
    (pc = "idle" /\ ret = "Err" /\ outcome = "Fail")
        => /\ err \in FailMessages
           /\ dest = (IF result.tag = "Renamed" THEN NoFile ELSE pre.dest)

\* C20: when an attempt returns Fail(msg) the engine tries to delete the temp
\* file, makes no further attempt and returns Err(msg) with the Fail's own message
\* even if the deletion failed; nothing is renamed onto dest and the mtime of dest
\* is not changed.
C20_FailEndsTheCall == []FailLeavesDest /\ [][FailStep]_vars

\* C20 witness: a write to disk failed and the partial temp file could not be deleted
C20_Witness ==
    /\ pc = "idle"
    /\ ret = "Err"
    /\ err = "Failed writing to disk"
    /\ outcome = "Fail"
    /\ temp.exists
    /\ Len(temp.bytes) = 1
    /\ pre.dest.exists
    /\ dest = pre.dest

(***************************************************************************)
(* Properties of download_resources (SpecPools).                           *)
(***************************************************************************)
\* the downloads in flight of a pool never exceed its budget
WithinBudget ==
    \A p \in Pools :
        /\ Cardinality(po_running[p]) <= Budget(p)
        /\ p \notin PoolsOf(po_phase) => po_running[p] = {}

\* the budgets main passes
BudgetsOfMain ==
    /\ Budget("workbin") = 64
    /\ Budget("internal") = 4
    /\ Budget("external") = 4
    /\ Budget("weblectures") = 4
    /\ Budget("zoom") = 4

\* a pool takes a download out of flight only when it could not start another
\* one: its slots are full or its list is exhausted; the other pools play no part
StartsWhenFree ==
    \A p \in Pools :
        /\ po_running'[p] # po_running[p] /\ po_running'[p] \subseteq po_running[p]
              => \/ Cardinality(po_running[p]) = Budget(p)
                 \/ po_next[p] > po_files[p]
        /\ Cardinality(po_running'[p]) > Cardinality(po_running[p])
              => /\ Cardinality(po_running[p]) < Budget(p)
                 /\ \A q \in Pools \ {p} : po_running'[q] = po_running[q]

\* C15: at every moment the downloads in flight of one download_resources pool are
\* at most its budget (workbin 64, internal multimedia 4, external multimedia 4,
\* web lectures 4, Zoom 4); the two multimedia pools run concurrently, each with
\* its own budget, and a download starts as soon as a slot of its pool is free.
C15_BoundedPools == [](WithinBudget /\ BudgetsOfMain) /\ [][StartsWhenFree]_vars

\* C15 witness: both multimedia pools are full at the same time, eight downloads
\* in flight, and each has a resource waiting
C15_Witness ==
    /\ po_phase = "multimedia"
    /\ Cardinality(po_running["internal"]) = 4
    /\ Cardinality(po_running["external"]) = 4
    /\ po_next["internal"] <= po_files["internal"]
    /\ po_next["external"] <= po_files["external"]

LoginConditions ==
    /\ lg_url.starts
    /\ \E i \in 1..Len(lg_url.pairs) : lg_url.pairs[i].key = "code"
    /\ lg_status \in 200..299
    /\ lg_body = "token"

\* the token exchange requests among the POSTs made
TokenPosts == {i \in 1..Len(lg_posts) : lg_posts[i].to = "token"}

\* C17: with_login returns a session iff the credential POST's final URL starts
\* with the callback, carries a code, the token exchange answers 2xx and its body
\* parses to an access_token; each of the four failures has its own error string,
\* and the token exchange is requested only after the first two checks passed.
C17_LoginChecks ==
    /\ lg_ret.tag = "Ok" => (lg_resps = 2 /\ LoginConditions)
    /\ (lg_pc = "done" /\ lg_resps = 2 /\ LoginConditions) => lg_ret.tag = "Ok"
    /\ (lg_pc = "done" /\ lg_resps >= 1 /\ ~lg_url.starts)
          => lg_ret = LoginErr("Invalid credentials")
    /\ (lg_pc = "done" /\ lg_resps >= 1 /\ lg_url.starts /\ ~HasCode(lg_url))
          => lg_ret = LoginErr("Unknown authentication failure (no code returned)")
    /\ (lg_pc = "done" /\ lg_resps = 2 /\ lg_status \notin 200..299)
          => lg_ret = LoginErr("Unknown authentication failure (no token returned)")
    /\ (lg_pc = "done" /\ lg_resps = 2 /\ lg_status \in 200..299 /\ lg_body # "token")
          => lg_ret = LoginErr("Failed to deserialise token exchange response")
    /\ TokenPosts # {}
          => /\ TokenPosts = {2}
             /\ lg_posts[1].to = "auth"
             /\ lg_url.starts
             /\ HasCode(lg_url)
             /\ lg_posts[2].code = FirstCode(lg_url)
    /\ lg_resps <= Len(lg_posts)

\* C17 witness: a session after a 204 answer, the code being the second query pair
C17_Witness ==
    /\ lg_pc = "done"
    /\ lg_ret.tag = "Ok"
    /\ lg_status = 204
    /\ Len(lg_url.pairs) = 2
    /\ lg_url.pairs[1].key = "state"
    /\ lg_posts[2].code = lg_url.pairs[2].val

(***************************************************************************)
(* stream_and_mux_videos                                                   *)
(***************************************************************************)
\* whether some sub-stream download returned tag
Returned(tag) == \E i \in DOMAIN mx_results : mx_results[i] = tag

\* whether the join_all of the sub-stream downloads is over
AllStreamsEnded == mx_results # <<>> /\ ~Returned("none")

\* the ffmpeg runs that write temp_destination
RunsTo(out) == {k \in DOMAIN mx_runs : mx_runs[k].argv[Len(mx_runs[k].argv)] = out}

\* C21: with two or more streams, once every sub-stream download has ended the
\* call returns Fail if any of them returned Fail (whatever came before it in
\* stream order), otherwise Retry if any of them returned Retry; the mux is
\* reached, and run, only if every one of them returned Ok.
C21_FailBeforeRetry ==
    Len(mx_streams) >= 2 =>
        /\ (AllStreamsEnded /\ Returned("Fail")) => (mx_pc = "done" /\ mx_ret = "Fail")
        /\ (AllStreamsEnded /\ ~Returned("Fail") /\ Returned("Retry"))
               => (mx_pc = "done" /\ mx_ret = "Retry")
        /\ (mx_pc \in {"mux", "cleanup"} \/ RunsTo(mx_temp) # {})
               => (AllStreamsEnded /\ \A i \in DOMAIN mx_results : mx_results[i] = "Ok")
        /\ (AllStreamsEnded /\ \A i \in DOMAIN mx_results : mx_results[i] = "Ok")
               => (mx_pc = "mux" \/ RunsTo(mx_temp) # {})
        /\ ~AllStreamsEnded => mx_ret = "none"

\* a Retry of the first stream and a Fail of the second: the call returned Fail
C21_Witness ==
    /\ Len(mx_streams) = 2
    /\ mx_results = <<"Retry", "Fail">>
    /\ mx_pc = "done"
    /\ mx_ret = "Fail"

\* the arguments of the mux, written out position by position
MuxArgvAsSpecified(argv) ==
    LET n == Len(mx_streams) IN
    /\ Len(argv) = 1 + 4 * n + 2 * n + 3
    /\ argv[1] = <<"-y">>
    /\ \A i \in 1..n :
          /\ argv[4 * i - 2] = <<"-itsoffset">>
          /\ argv[4 * i - 1] = F64ToString(mx_streams[i])
          /\ argv[4 * i] = <<"-i">>
          /\ argv[4 * i + 1] = mx_dests[i]
    /\ \A i \in 1..n :
          /\ argv[4 * n + 2 * i] = <<"-map">>
          /\ argv[4 * n + 2 * i + 1] = UsizeToString(i - 1)
    /\ argv[6 * n + 2] = <<"-c">>
    /\ argv[6 * n + 3] = <<"copy">>
    /\ argv[6 * n + 4] = mx_temp

\* the sub-temp files: pairwise distinct, next to temp_destination, and each
\* sub-stream download writes its own
SubTempsDistinct ==
    /\ \A i, j \in DOMAIN mx_dests : i # j => mx_dests[i] # mx_dests[j]
    /\ \A i \in DOMAIN mx_dests :
          /\ ParentOf(mx_dests[i]) = ParentOf(mx_temp)
          /\ mx_dests[i] # mx_temp
          /\ Cardinality(RunsTo(mx_dests[i])) = IF mx_results[i] = "none" THEN 0 ELSE 1
          /\ \A k \in RunsTo(mx_dests[i]) :
                mx_runs[k].argv = << <<"-y">>, <<"-i">>, StreamUrl(i), <<"-c">>, <<"copy">>,
                                     mx_dests[i] >>

\* one mux at most, after every sub-stream download returned Ok
OneMuxAfterAllOk ==
    /\ Cardinality(RunsTo(mx_temp)) <= 1
    /\ \A k \in RunsTo(mx_temp) :
          /\ AllStreamsEnded
          /\ \A i \in DOMAIN mx_results : mx_results[i] = "Ok"
          /\ \A i \in DOMAIN mx_dests : \E j \in RunsTo(mx_dests[i]) : j < k
          /\ MuxArgvAsSpecified(mx_runs[k].argv)

\* a step that removes a sub-temp file comes after a mux that returned Ok
DeletedAfterMuxOk ==
    (\E i \in DOMAIN mx_dests : mx_dests[i] \in mx_files /\ mx_dests[i] \notin mx_files')
        => \E k \in RunsTo(mx_temp) : mx_runs[k].outcome = "Ok"

\* C22: with N >= 2 streams the N sub-stream downloads write N pairwise distinct
\* sub-temp files next to the destination; ffmpeg is run for the mux once at
\* most and only after all N returned Ok, with -itsoffset <offset_i> -i
\* <subtemp_i> per stream in stream order, then -map 0 .. -map N-1, then
\* -c copy and the output file; a sub-temp file is deleted only after the mux
\* returned success.
C22_MuxAfterStreams ==
    /\ [](Len(mx_streams) >= 2 => (SubTempsDistinct /\ OneMuxAfterAllOk))
    /\ [][DeletedAfterMuxOk]_vars

\* three streams muxed, the second one with a fractional offset, and the
\* sub-temp files deleted after it
C22_Witness ==
    /\ Len(mx_streams) = 3
    /\ mx_streams[2] = 35
    /\ mx_pc = "done"
    /\ mx_ret = "Ok"
    /\ \A i \in DOMAIN mx_dests : mx_dests[i] \notin mx_files
    /\ \E k \in RunsTo(mx_temp) : mx_runs[k].outcome = "Ok"

(***************************************************************************)
(* Properties of DirectoryHandle::load (SpecDir).                          *)
(***************************************************************************)
RECURSIVE PathUp(_)
\* the directories below the root on the way from d up to the root, d included
PathUp(d) == IF d = 0 THEN {} ELSE {d} \cup PathUp(fd_parent[d])

\* whether d lies in a subtree that is open for uploads
Uploadable(d) == \E a \in PathUp(d) : fd_upload[a] = "true"

\* the files of a sequence, as a set
FilesOf(s) == {s[i] : i \in DOMAIN s}

\* C24: with include_uploadable false a load that succeeds returns exactly the
\* files none of whose directories below the root has allowUpload true, and no
\* request is sent for a directory in such a subtree; with include_uploadable
\* true it returns every file. No file is returned twice.
C24_UploadableFoldersPruned ==
    /\ (fd_pc = "done" /\ fd_ret.ok) =>
          /\ FilesOf(fd_ret.files) =
                {d \in 0..MaxDirs : fd_include \/ ~Uploadable(d)}
          /\ Len(fd_ret.files) = Cardinality(FilesOf(fd_ret.files))
    /\ (fd_pc # "off" /\ ~fd_include) => \A r \in fd_sent : ~Uploadable(r[1])

\* a chain 0 - 1 - 2 with 1 open for uploads and 2 not: only the file of the
\* root is returned, and nothing was asked about 1 and 2
C24_Witness ==
    /\ fd_pc = "done"
    /\ fd_ret.ok
    /\ ~fd_include
    /\ fd_parent[1] = 0
    /\ fd_parent[2] = 1
    /\ fd_upload[1] = "true"
    /\ fd_upload[2] = "false"
    /\ fd_ret.files = <<0>>
    /\ fd_sent = {<<0, "subdirs">>, <<0, "files">>}

(***************************************************************************)
(* Properties of main (SpecMain).                                          *)
(***************************************************************************)
\* the loading of section s is over
SectionLoaded(s) == Enabled(mn_opts[s]) /\ (mn_sec > s \/ (mn_sec = s /\ mn_pc # "load"))

\* the download of section s is over and returned Ok
SectionDownloaded(s) ==
    /\ mn_opts[s].dest
    /\ mn_sec > s
    /\ Loaders[s] = "conferences" => mn_logins = <<"Ok">>

\* C25 (as claimed): a loading failure for one module in one family removes only
\* that module's resources of that family: every resource of a module and a
\* family without a loading failure is returned by its loader, listed when
\* listing is asked for and downloaded when the download of its section ran;
\* and a loading failure does not end the run.
C25_LoaderIsolation ==
    /\ [](\A s \in 1..Len(Loaders), m \in Mods : \A f \in FamiliesOf(Loaders[s]) :
             (/\ mn_pc # "off"
              /\ SectionLoaded(s)
              /\ Exists(m, f, mn_zoom_has)
              /\ <<m, f>> \notin mn_failed)
                 => /\ <<m, f>> \in mn_returned
                    /\ mn_opts[s].list => <<m, f>> \in mn_listed
                    /\ SectionDownloaded(s) => <<m, f>> \in mn_downloaded)
    /\ [][mn_failed' # mn_failed => mn_ret' # "Err"]_vars

\* the Zoom recordings in a set of resources
ZoomOf(list) == {r \in list : r[2] = "zoom"}

\* C27: login_zoom is called once at most, and only when a conference download
\* directory was given and the list of recordings is not empty; no recording
\* is handed to download unless login_zoom returned Ok; when login_zoom fails
\* no recording is downloaded and main returns Ok.
C27_LoginGate ==
    mn_pc # "off" =>
        /\ Len(mn_logins) <= 1
        /\ mn_logins # <<>> => (mn_opts[Len(Loaders)].dest /\ ZoomOf(mn_returned) # {})
        /\ (ZoomOf(mn_downloaded) # {} \/ (mn_pc = "download" /\ Loaders[mn_sec] = "conferences"))
               => mn_logins = <<"Ok">>
        /\ mn_logins = <<"Err">>
               => (mn_pc = "done" /\ mn_ret = "Ok" /\ ZoomOf(mn_downloaded) = {})

\* recordings were found, login_zoom failed, and the run ended normally with
\* the workbin files downloaded
C27_Witness ==
    /\ mn_logins = <<"Err">>
    /\ ZoomOf(mn_returned) # {}
    /\ ZoomOf(mn_downloaded) = {}
    /\ \E m \in Mods : <<m, "workbin">> \in mn_downloaded
    /\ mn_pc = "done"
    /\ mn_ret = "Ok"

(***************************************************************************)
(* Properties of ZoomRecording::get_download_url (SpecZoomUrl).            *)
(***************************************************************************)
\* how often a request was sent
Sent(req) == Cardinality({i \in DOMAIN zu_reqs : zu_reqs[i] = req})

\* the first GET was answered and its path asks for the password
OnPasswordPath == zu_first # <<>> /\ StartsWith(zu_first, ZoomPasswordUrlPrefix)

\* what C28 says apart from its "iff"
UrlOnlyWhenValidated ==
    /\ (OnPasswordPath /\ zu_url = "Ok") =>
          /\ zu_post = "true"
          /\ zu_second \in SharePaths
          /\ ~StartsWith(zu_second, ZoomPasswordUrlPrefix)
    /\ zu_post = "false" => (zu_url = "Err" /\ Sent("GET share") = 1)
    /\ zu_url = "Err" => (zu_pc = "done" /\ zu_ret = "Err" /\ Sent("GET mp4") = 0 /\ zu_dest # "new")
    /\ zu_url = "none" => (Sent("GET mp4") = 0 /\ zu_dest # "new")

\* C28 (as claimed): the password POST is sent iff the first GET of the share
\* URL ends on a path starting with /rec/share; a URL is returned on that
\* branch only if the validation status is true and the second GET does not
\* end on /rec/share; a false status returns an error without a second GET;
\* when the URL acquisition fails no MP4 request is sent and dest is not created.
C28_Original ==
    /\ zu_pc \in {"second", "video", "download", "done"} =>
          (Sent("POST validate") = 1 <=> OnPasswordPath)
    /\ Sent("POST validate") <= 1
    /\ UrlOnlyWhenValidated

\* C28 (amended): the password POST is sent only if the first GET of the share
\* URL ends on a path starting with /rec/share, and it is sent whenever it
\* does and the password page gave the meeting id (without one the call fails
\* before the POST); the rest as claimed.
C28_PasswordBranch ==
    /\ Sent("POST validate") = 1 => OnPasswordPath
    /\ Sent("POST validate") <= 1
    /\ (OnPasswordPath /\ zu_page = "ok") => Sent("POST validate") = 1
    /\ (OnPasswordPath /\ zu_page \in {"notext", "noid"}) => (Sent("POST validate") = 0 /\ zu_url = "Err")
    /\ UrlOnlyWhenValidated

\* the password was asked for, accepted, and the recording downloaded
C28_Witness ==
    /\ OnPasswordPath
    /\ zu_reqs = <<"GET share", "POST validate", "GET share", "GET mp4">>
    /\ zu_post = "true"
    /\ zu_url = "Ok"
    /\ zu_dest = "new"

(***************************************************************************)
(* Naming of the resources that sort_and_make_all_paths_unique renames     *)
(* (SpecUnique).                                                           *)
(***************************************************************************)
\* the '.'s of a name that have something before them
InnerDots(name) == {i \in 2..Len(name) : name[i] = "."}

\* <stem>_<id>.<extension>, split at the last '.', or <stem>_<id> for a name
\* without extension
NameAsSpecified(name, id) ==
    IF InnerDots(name) = {} THEN name \o <<"_">> \o id
    ELSE LET d == CHOOSE i \in InnerDots(name) : \A j \in InnerDots(name) : j <= i
         IN SubSeq(name, 1, d - 1) \o <<"_">> \o id \o <<".">> \o SubSeq(name, d + 1, Len(name))

\* the resource of the result that has the id of the k-th resource of the batch
ResultOf(k) == resources[CHOOSE i \in DOMAIN resources : resources[i].id = batch[k].id]

\* the resources of the batch that were given the path of the k-th
SamePath(k) == {j \in DOMAIN batch : batch[j].path = batch[k].path}

\* C29: of the resources given one path, one of the newest keeps it and every
\* other one gets the file name <stem>_<id>.<extension>, or <stem>_<id> when the
\* name has no extension, in the same directory, split at the last '.'.
C29_RenamedNames ==
    uq_pc = "done" =>
        \A k \in DOMAIN batch :
            /\ ResultOf(k).path.dir = batch[k].path.dir
            /\ \/ ResultOf(k).path.name = batch[k].path.name
               \/ ResultOf(k).path.name = NameAsSpecified(batch[k].path.name, batch[k].id)
            /\ \E j \in SamePath(k) :
                  /\ ResultOf(j).path = batch[j].path
                  /\ \A i \in SamePath(k) : batch[i].last_updated <= batch[j].last_updated
                  /\ \A i \in SamePath(k) \ {j} :
                        ResultOf(i).path.name = NameAsSpecified(batch[i].path.name, batch[i].id)

\* three resources at A/a.p, the third the newest: A/a_1.p, A/a_2.p and A/a.p
C29_Witness ==
    /\ uq_pc = "done"
    /\ Len(batch) = 3
    /\ \A k \in 1..3 : batch[k].path.name = <<"a", ".", "p">>
    /\ batch[3].last_updated > batch[1].last_updated
    /\ batch[3].last_updated > batch[2].last_updated
    /\ ResultOf(1).path.name = <<"a", "_", "1", ".", "p">>
    /\ ResultOf(2).path.name = <<"a", "_", "2", ".", "p">>
    /\ ResultOf(3).path.name = <<"a", ".", "p">>

(***************************************************************************)
(* Properties of the rename search of prepare_path (SpecRename).           *)
(***************************************************************************)
\* the part of the name before its first '.', and the whole name without one
BeforeFirstDot(name) ==
    IF \E i \in DOMAIN name : name[i] = "."
        THEN SubSeq(name, 1, (CHOOSE i \in DOMAIN name :
                                  name[i] = "." /\ \A j \in 1..(i - 1) : name[j] # ".") - 1)
        ELSE name

\* the part of the name from its first '.' on, when something follows that '.'
FromFirstDot(name) ==
    LET rest == SubSeq(name, Len(BeforeFirstDot(name)) + 1, Len(name))
    IN IF Len(rest) <= 1 THEN <<>> ELSE rest

\* C30: the file name is split at its first '.' ('a.t.g' gives 'a' and 't.g', a
\* name without '.' gives no extension); the k-th name tried is the stem, the
\* autorename suffix, the number of the turn when it is not the first, and the
\* extension; the names tried are pairwise distinct, so that the search ends at
\* a name that no file has.
C30_SplitAtFirstDot ==
    /\ SplitProperly(<<"a", ".", "t", ".", "g">>)
           = [stem |-> <<"a">>, ext |-> [some |-> TRUE, val |-> <<"t", ".", "g">>]]
    /\ SplitProperly(<<"a">>) = [stem |-> <<"a">>, ext |-> NoExt]
    /\ \A k \in DOMAIN rn_tried :
          rn_tried[k] = BeforeFirstDot(rn_name) \o AutorenameSuffix
                        \o (IF k = 1 THEN <<>> ELSE <<"_">> \o UsizeToString(k - 1))
                        \o FromFirstDot(rn_name)
    /\ \A k, l \in DOMAIN rn_tried : k # l => rn_tried[k] # rn_tried[l]
    /\ rn_pc = "done" => rn_tried[Len(rn_tried)] \notin rn_files \ {rn_tried[Len(rn_tried)]}
    /\ rn_ret = "Renamed" => rn_tried[Len(rn_tried)] \in rn_files

\* a.t.g with a.<suffix>.t.g and a.<suffix>_1.t.g taken: renamed to the third name
C30_Witness ==
    /\ rn_name = <<"a", ".", "t", ".", "g">>
    /\ rn_ret = "Renamed"
    /\ rn_tried = << <<"a", "_autorename_", "2024-03-01", ".", "t", ".", "g">>,
                     <<"a", "_autorename_", "2024-03-01", "_", "1", ".", "t", ".", "g">>,
                     <<"a", "_autorename_", "2024-03-01", "_", "2", ".", "t", ".", "g">> >>


(***************************************************************************)
(* Further properties of the download engine (SpecDownload).               *)
(***************************************************************************)
\* the bytes that were at dest before the call are at dest
OldBytesAtDest == dest.exists /\ dest.bytes = pre.dest.bytes

\* the file that was at dest before the call is at a candidate path that was free
OldFileAtRenamedPath ==
    \E c \in Cands : ~pre.renamed[c].exists /\ renamed[c] = pre.dest

\* C33 (as claimed): in Overwrite and Rename modes, after any download call that
\* returns Err, the bytes of the file that was at dest before the call are still
\* on disk: at dest in Overwrite mode, at dest or at the renamed path in Rename
\* mode.
C33_ErrKeepsPreviousVersion ==
    (pc = "idle" /\ ret = "Err" /\ pre.dest.exists)
        => /\ mode = "Overwrite" => OldBytesAtDest
           /\ mode = "Rename" => (OldBytesAtDest \/ OldFileAtRenamedPath)

\* every attempt of download_chunks sends its request with an empty temp file
AttemptStartsEmpty == pc = "send" => (temp.exists /\ temp.bytes = <<>>)

\* the rename onto dest moves the body written by the attempt that just returned Ok
CommitsFinalAttempt ==
    (pc = "attempt_done" /\ pc' = "stamp")
        => /\ dest'.bytes = Complete(attempt)
           /\ outcome = "Ok"
           /\ ~temp'.exists

\* C34: the file committed to dest holds exactly the bytes streamed by the final,
\* successful attempt, and every download_chunks attempt starts from an empty
\* temp file, whatever an earlier attempt or an earlier process left there.
C34_NoResidue == []AttemptStartsEmpty /\ [][CommitsFinalAttempt]_vars

\* C34 witness: a stale temp file was there, the first attempt was retried, the
\* second one was committed
C34_Witness ==
    /\ pc = "idle"
    /\ ret = "Ok"
    /\ kind = "simple"
    /\ pre.temp.exists
    /\ pre.temp.bytes = StaleBytes
    /\ call_attempts = 2
    /\ dest.bytes = Complete(attempt)

\* a body was renamed onto dest by this call of download_chunks
CommittedByGet ==
    /\ ~UsesFfmpeg(kind)
    /\ \/ pc = "stamp"
       \/ pc = "idle" /\ ret = "Ok" /\ result.tag \in Downloaded

\* the call after a download by download_chunks reported AlreadyHave
AlreadyHaveAfterGet ==
    /\ ~UsesFfmpeg(kind)
    /\ calls >= 2
    /\ prev.downloaded
    /\ pc = "idle"
    /\ ret = "Ok"
    /\ result.tag = "AlreadyHave"

\* C35 (as claimed): a file is renamed onto dest and stamped only if the download
\* GET answered with a success status, and a later run reports AlreadyHave only
\* for a body that came with a success status.
C35_OnlySuccessCommitted ==
    (CommittedByGet \/ AlreadyHaveAfterGet) => IsSuccess(status)


(***************************************************************************)
(* Further properties of sort_and_make_all_paths_unique (SpecUnique).      *)
(***************************************************************************)
\* the positions of the slice that hold the id and last_updated of the k-th resource
PositionsOf(k) ==
    {i \in DOMAIN resources :
        resources[i].id = batch[k].id /\ resources[i].last_updated = batch[k].last_updated}

\* C36: sort_and_make_all_paths_unique changes only the order of the slice and the
\* file names of collision losers: the resources are the same by id and
\* last_updated, each one once, every resource keeps its parent directory and its
\* extension, and a resource whose path no other resource had keeps its path.
C36_OnlyLoserNamesChange ==
    uq_pc = "done" =>
        /\ Len(resources) = Len(batch)
        /\ \A k \in DOMAIN batch :
              /\ Cardinality(PositionsOf(k)) = 1
              /\ ResultOf(k).path.dir = batch[k].path.dir
              /\ Extension(ResultOf(k).path.name) = Extension(batch[k].path.name)
              /\ SamePath(k) = {k} => ResultOf(k).path = batch[k].path

\* C36 witness: two resources at A/a.p and one alone at A/a; one of the two was
\* renamed, the slice was reordered
C36_Witness ==
    /\ uq_pc = "done"
    /\ Len(batch) = 3
    /\ batch[1].path.name = <<"a", ".", "p">>
    /\ batch[2].path.name = <<"a", ".", "p">>
    /\ batch[3].path.name = <<"a">>
    /\ ResultOf(3).path = batch[3].path
    /\ ResultOf(1).path.name = <<"a", "_", "1", ".", "p">>
    /\ resources[1].id = batch[3].id

\* the paths by id that the fold gives for the order s of the batch
PathsById(s) ==
    LET out == FoldFrom(s, 1, EmptyPath)
    IN {<<out[i].id, out[i].path>> : i \in DOMAIN out}

\* the orders of the batch that the comparison of the sort allows
SortedOrders ==
    {s \in {[i \in DOMAIN batch |-> batch[perm[i]]] : perm \in Permutations(DOMAIN batch)} :
        IsSorted(s)}

\* the paths by id of the result
AssignedPaths == {<<resources[i].id, resources[i].path>> : i \in DOMAIN resources}

\* C37 (as claimed): the path assigned to each resource id depends only on the set
\* of resources: every order the sort may leave the slice in, ties in path and
\* last_updated included, gives each id the path it has in the result.
C37_PathsIndependentOfOrder ==
    uq_pc = "done" =>
        \A s \in SortedOrders : PathsById(s) = AssignedPaths


(***************************************************************************)
(* Properties of the paths download_resources works on (SpecFlight,        *)
(* SpecPath).                                                              *)
(***************************************************************************)
\* the videos whose download_resource is running, of both pools
InFlight == {<<p, k>> : p \in MultimediaPools, k \in 1..MaxVideos} \cap
            {x \in MultimediaPools \X (1..MaxVideos) : x[2] \in fl_running[x[1]]}

VideoOf(x) == fl_lists[x[1]][x[2]]

\* C31 (as claimed): no two downloads that are in flight at the same time, of one
\* download_resources call or of the internal and the external pool, have the
\* same destination path or the same temp path, and the temp path of none is the
\* destination path of another.
C31_WriteSetsDisjoint ==
    \A x, y \in InFlight :
        x # y => /\ RealPath(VideoOf(x)) # RealPath(VideoOf(y))
                 /\ TempPath(VideoOf(x)) # TempPath(VideoOf(y))
                 /\ TempPath(VideoOf(x)) # RealPath(VideoOf(y))

RECURSIVE StaysBelow(_, _, _)
\* following the components c from position i at depth d below the destination
\* never leaves the destination
StaysBelow(c, i, d) ==
    IF i > Len(c) THEN TRUE
    ELSE IF c[i] = ParentDir THEN d > 0 /\ StaysBelow(c, i + 1, d - 1)
    ELSE IF c[i] = CurDir THEN StaysBelow(c, i + 1, d)
    ELSE StaysBelow(c, i + 1, d + 1)

\* the path is the destination followed by components that stay below it
InsideDestination(s) ==
    LET c == PathComponents(s)
    IN /\ c # <<>>
       /\ c[1] = Destination
       /\ StaysBelow(c, 2, 0)

\* C32 (as claimed): whatever names the server gives, the relative path of a file
\* has a final file-name component and no ".." component, download_resources
\* does not panic on parent() or file_name(), and the real and the temp path it
\* computes lie inside the download destination.
C32_PathsConfined ==
    /\ lp_pc \in {"file", "done"}
          => /\ PathFileName(lp_path).some
             /\ \A i \in DOMAIN PathComponents(lp_path) :
                   PathComponents(lp_path)[i] # ParentDir
    /\ lp_pc = "done"
          => /\ lp_ret = "ok"
             /\ InsideDestination(lp_real)
             /\ InsideDestination(lp_temp)

====
